---- MODULE Spec2Model ----
(***************************************************************************)
(* Model of client/isolate.py: the SavedState incremental cache, its       *)
(* update protocol, its persistence (flatten / load / load_file), the      *)
(* manifest emission (to_isolated / chromium_save_isolated), the root      *)
(* inference of load_isolate and the materialization (recreate_tree /      *)
(* create_isolate_tree).                                                   *)
(*                                                                         *)
(* Conventions.  A Python dict is a TLA+ function whose DOMAIN is the key  *)
(* set; a path is the sequence of its characters, so that str.startswith   *)
(* is computed on the characters; None is the string "None" for string     *)
(* valued fields and NoneRO for the integer valued read_only policy.       *)
(***************************************************************************)
EXTENDS Integers, Sequences, FiniteSets, TLC

VARIABLES
  saved_state,     \* the in-memory SavedState instance (its MEMBERS)
  state_file,      \* content of <isolated>.state on disk
  isolated_files,  \* the .isolated documents on disk, by file name
  isolate_on_disk, \* the .isolate description files that exist on disk
  last,            \* the last operation: name, arguments, outcome
  pc,              \* position of the process in its refresh cycle
  tree,            \* the call of recreate_tree / create_isolate_tree in progress
  outdir_fs,       \* the destination directory of the materialization
  oplog,           \* the file system operations done on the destination
  pending,         \* the documents save_files has still to write
  procs,           \* the processes that refresh one manifest path together
  start_slave_script, \* the script stored under START_SLAVE_SCRIPT_KEY
  memcache,        \* the memcache entries of the bot server, by key
  requests         \* the calls in progress on the bot server

vars == <<saved_state, state_file, isolated_files, isolate_on_disk, last, pc,
          tree, outdir_fs, oplog, pending,
          procs, start_slave_script, memcache, requests>>

\* the variables of the saved state and its files
stateVars ==
  <<saved_state, state_file, isolated_files, isolate_on_disk, last, pc>>

\* the variables of the materialization and of a save in progress
stepVars == <<tree, outdir_fs, oplog, pending>>

\* the variables of the racing processes and of the bot server
concurrentVars == <<procs, start_slave_script, memcache, requests>>

(***************************************************************************)
(* Bounds of the model.                                                    *)
(***************************************************************************)
MaxTouched == 1      \* at most this many entries in a touched list
MaxCommandLen == 1   \* at most this many words in a command line

(***************************************************************************)
(* Values.                                                                 *)
(***************************************************************************)
None == "None"
NoneRO == 0 - 1

EmptyDict == [x \in {} |-> x]

\* dict.update(): keys of b win
DictUpdate(a, b) ==
  [k \in (DOMAIN a) \cup (DOMAIN b) |-> IF k \in DOMAIN b THEN b[k] ELSE a[k]]

\* dict without the keys ks
DictWithout(a, ks) == [k \in (DOMAIN a) \ ks |-> a[k]]

\* str.startswith()
startswith(s, prefix) ==
  /\ Len(prefix) <= Len(s)
  /\ SubSeq(s, 1, Len(prefix)) = prefix

\* The paths of the model, relative to root_dir, as character sequences.
P_a == <<"a">>
P_test_data_b == <<"t", "e", "s", "t", "/", "d", "a", "t", "a", "/", "b">>
P_out_c == <<"o", "u", "t", "/", "c">>
P_outer == <<"o", "u", "t", "e", "r">>

AllPaths == {P_a, P_test_data_b, P_out_c, P_outer}

\* The paths the dependency description names in the update protocol: a
\* regular file and a symlink.
Paths == {P_a, P_outer}

\* sys.platform of the running process, and another platform
sys_platform == "linux2"
OtherPlatform == "win32"

\* isolated_format.SUPPORTED_ALGOS: human readable name -> hashlib handle
SUPPORTED_ALGOS ==
  [n \in {"md5", "sha-1", "sha-512"} |->
     CASE n = "md5" -> "hashlib.md5"
       [] n = "sha-1" -> "hashlib.sha1"
       [] n = "sha-512" -> "hashlib.sha512"]

\* isolated_format.SUPPORTED_ALGOS_REVERSE: handle -> name
SUPPORTED_ALGOS_REVERSE ==
  [h \in {SUPPORTED_ALGOS[n] : n \in DOMAIN SUPPORTED_ALGOS} |->
     CHOOSE n \in DOMAIN SUPPORTED_ALGOS : SUPPORTED_ALGOS[n] = h]

\* isolated_format.ISOLATED_FILE_VERSION, a dotted version as its components
ISOLATED_FILE_VERSION == <<"1", "4">>

\* SavedState.EXPECTED_VERSION = ISOLATED_FILE_VERSION + '.2'
EXPECTED_VERSION == ISOLATED_FILE_VERSION \o <<"2">>

\* SavedState.MEMBERS
MEMBERS ==
  {"OS", "algo", "child_isolated_files", "command", "config_variables",
   "extra_variables", "files", "isolate_file", "path_variables", "read_only",
   "relative_cwd", "root_dir", "version"}

\* The members that hold None in some state, and the value that stands for
\* None in each.
NULLABLE == {"isolate_file", "read_only", "relative_cwd", "root_dir"}

NoneOf(member) == IF member = "read_only" THEN NoneRO ELSE None

IsNone(s, member) == member \in NULLABLE /\ s[member] = NoneOf(member)

\* SavedState.__init__: the empty SavedState of the (single) base directory
SavedState_init ==
  [OS |-> sys_platform,
   algo |-> SUPPORTED_ALGOS["sha-1"],
   child_isolated_files |-> <<>>,
   command |-> <<>>,
   config_variables |-> EmptyDict,
   extra_variables |-> EmptyDict,
   files |-> EmptyDict,
   isolate_file |-> None,
   path_variables |-> EmptyDict,
   read_only |-> NoneRO,
   relative_cwd |-> None,
   root_dir |-> None,
   version |-> EXPECTED_VERSION]

(***************************************************************************)
(* The file system the description points at: regular files with their     *)
(* content digest, size and mode, and one symlink.                         *)
(***************************************************************************)
FileSystem ==
  [p \in AllPaths |->
     CASE p = P_a -> [h |-> "hash_a", s |-> 1, m |-> 420]
       [] p = P_test_data_b -> [h |-> "hash_b", s |-> 2, m |-> 420]
       [] p = P_out_c -> [h |-> "hash_c", s |-> 3, m |-> 493]
       [] p = P_outer -> [l |-> "out"]]

\* isolated_format.file_to_metadata: the updated record of one path
file_to_metadata(p, prevdict) ==
  IF "T" \in DOMAIN prevdict
    THEN DictUpdate(FileSystem[p], [T |-> TRUE])
    ELSE FileSystem[p]

(***************************************************************************)
(* The .isolate description files.  isolated_basedir is "/w"; safe_relpath *)
(* makes an absolute path relative to it.                                  *)
(***************************************************************************)
AbsIsolateFiles == {"/w/a.isolate", "/w/b.isolate"}

\* file_path.safe_relpath(isolate_file, self.isolated_basedir)
safe_relpath(abs) ==
  CASE abs = "/w/a.isolate" -> "a.isolate"
    [] abs = "/w/b.isolate" -> "b.isolate"
    [] abs = "/w/s/c.isolate" -> "s/c.isolate"

\* SavedState.isolate_filepath: normpath(join(isolated_basedir, isolate_file))
isolate_filepath(rel) ==
  CASE rel = "a.isolate" -> "/w/a.isolate"
    [] rel = "b.isolate" -> "/w/b.isolate"
    [] rel = "s/c.isolate" -> "/w/s/c.isolate"
    [] OTHER -> rel

\* Python truthiness of an optional string: None and '' are false
Truthy(x) == x # None /\ x # ""

(***************************************************************************)
(* SavedState.update_config                                                *)
(***************************************************************************)
\* Faulty variant: the given config variables replace the recorded ones.
update_config_replace(s, config_variables) ==
  [s EXCEPT !.config_variables = config_variables]

update_config(s, config_variables) ==
  [s EXCEPT !.config_variables = DictUpdate(@, config_variables)]

(***************************************************************************)
(* SavedState.update: the assert comes before every assignment.            *)
(***************************************************************************)
\* Faulty variant: the assert is gone, any description path is accepted
update_accepts_any(recorded, isolate_file) == TRUE

update_accepts(recorded, isolate_file) ==
  isolate_file = recorded \/ ~Truthy(recorded)

update(s, abs_isolate_file, path_variables, extra_variables) ==
  LET isolate_file == safe_relpath(abs_isolate_file) IN
  IF update_accepts(s.isolate_file, isolate_file)
    THEN [ok |-> TRUE,
          out |-> [s EXCEPT
                     !.extra_variables = DictUpdate(@, extra_variables),
                     !.isolate_file = isolate_file,
                     !.path_variables = DictUpdate(@, path_variables)]]
    ELSE [ok |-> FALSE, out |-> s]

(***************************************************************************)
(* SavedState.update_isolated                                              *)
(***************************************************************************)
\* Faulty variant: the command is extended instead of replaced
set_command_extend(old, command) == old \o command

\* self.command = command
set_command(old, command) == command

\* Faulty variant: a new entry is seeded with a size
add_infiles_sized(files, infiles) ==
  [f \in (DOMAIN files) \cup infiles |->
     IF f \in DOMAIN files THEN files[f] ELSE [s |-> 0]]

\* for f in infiles: self.files.setdefault(f, {})
add_infiles(files, infiles) ==
  [f \in (DOMAIN files) \cup infiles |->
     IF f \in DOMAIN files THEN files[f] ELSE EmptyDict]

\* Faulty variant: a touched path gets a new record, self.files[f] = {'T': True}
add_touched_new(files, touched) ==
  [f \in (DOMAIN files) \cup touched |->
     IF f \in touched THEN [T |-> TRUE] ELSE files[f]]

\* for f in touched: self.files.setdefault(f, {})['T'] = True
add_touched(files, touched) ==
  [f \in (DOMAIN files) \cup touched |->
     IF f \in touched
       THEN DictUpdate(IF f \in DOMAIN files THEN files[f] ELSE EmptyDict,
                       [T |-> TRUE])
       ELSE files[f]]

\* Faulty variant: nothing is pruned
prune_files_never(files, infiles, touched) == files

\* for f in set(self.files).difference(set(infiles).union(touched)): del
prune_files(files, infiles, touched) ==
  DictWithout(files, (DOMAIN files) \ (infiles \cup touched))

\* Faulty variant: read_only is assigned unconditionally
set_read_only_always(old, read_only) == read_only

\* if read_only is not None: self.read_only = read_only
set_read_only(old, read_only) ==
  IF read_only # NoneRO THEN read_only ELSE old

update_isolated(s, command, infiles, touched, read_only, relative_cwd) ==
  [s EXCEPT
     !.command = set_command(@, command),
     !.files = prune_files(add_touched(add_infiles(@, infiles), touched),
                           infiles, touched),
     !.read_only = set_read_only(@, read_only),
     !.relative_cwd = relative_cwd]

(***************************************************************************)
(* CompleteState.files_to_metadata (no subdir)                             *)
(***************************************************************************)
files_to_metadata(s) ==
  [s EXCEPT !.files = [p \in DOMAIN @ |-> file_to_metadata(p, @[p])]]

(***************************************************************************)
(* Persistence: Flattenable.flatten / load / load_file, SavedState.load.   *)
(* A JSON object is a function from its keys to its values.                *)
(***************************************************************************)
\* Flattenable.flatten: the members that are not None
Flattenable_flatten(s) ==
  [member \in {mb \in MEMBERS : ~IsNone(s, mb)} |-> s[member]]

\* Faulty variant: the internal algorithm handle is written as it is.
flatten_handle(s) == Flattenable_flatten(s)

\* SavedState.flatten: 'algo' in human readable form
flatten(s) ==
  LET out == Flattenable_flatten(s) IN
  [out EXCEPT !.algo = SUPPORTED_ALGOS_REVERSE[@]]

\* Flattenable.load: every member found in data is set on a new instance;
\* a leftover entry is a ValueError
Flattenable_load(data) ==
  [exc |-> IF (DOMAIN data) \ MEMBERS # {} THEN "ValueError" ELSE "",
   out |-> [member \in MEMBERS |->
              IF member \in DOMAIN data THEN data[member]
              ELSE SavedState_init[member]]]

\* data.get(key)
DictGet(data, key) == IF key \in DOMAIN data THEN data[key] ELSE None

\* Faulty variant: the OS of the loaded instance is compared, which is the current
\* platform when the document has no OS
os_accepted_loaded(data, out) == out.OS = sys_platform

\* if data.get('OS') != sys.platform: raise IsolatedError
os_accepted(data, out) == DictGet(data, "OS") = sys_platform

\* Faulty variant: only the .isolated format version is compared, as
\* isolateserver.load_isolated does
version_accepted_format(version) ==
  SubSeq(version, 1, Len(ISOLATED_FILE_VERSION)) = ISOLATED_FILE_VERSION

\* if out.version != cls.EXPECTED_VERSION: raise IsolatedError
version_accepted(version) == version = EXPECTED_VERSION

\* Faulty variant: the recorded description is never looked up on disk
isolate_file_is_stale_never(isolate_file, on_disk) == FALSE

\* out.isolate_file and not os.path.isfile(out.isolate_filepath)
isolate_file_is_stale(isolate_file, on_disk) ==
  Truthy(isolate_file) /\ isolate_filepath(isolate_file) \notin on_disk

\* if out.isolate_file and not isfile(...): out.isolate_file = None
zap_isolate_file(out, on_disk) ==
  IF isolate_file_is_stale(out.isolate_file, on_disk)
    THEN [out EXCEPT !.isolate_file = None]
    ELSE out

\* os.path.isabs()
isabs(path) == path \in AbsIsolateFiles

\* SavedState.load
SavedState_load(data, on_disk) ==
  LET base == Flattenable_load(data)
      algo == DictGet(data, "algo")
  IN
  IF base.exc # "" THEN base
  ELSE IF ~os_accepted(data, base.out)
    THEN [exc |-> "IsolatedError", out |-> base.out]
  ELSE IF algo \notin DOMAIN SUPPORTED_ALGOS
    THEN [exc |-> "IsolatedError", out |-> base.out]
  ELSE IF ~version_accepted(base.out.version)
    THEN [exc |-> "IsolatedError",
          out |-> [base.out EXCEPT !.algo = SUPPORTED_ALGOS[algo]]]
  ELSE
    LET out == zap_isolate_file(
                 [base.out EXCEPT !.algo = SUPPORTED_ALGOS[algo]], on_disk)
    IN
    IF Truthy(out.isolate_file) /\ isabs(out.isolate_file)
         /\ sys_platform # "win32"
      THEN [exc |-> "AssertionError", out |-> out]
      ELSE [exc |-> "", out |-> out]

\* isolated_format.IsolatedError is a ValueError
ExceptionBases ==
  [e \in {"IOError", "ValueError", "IsolatedError", "AssertionError",
          "AttributeError"} |->
     IF e = "IsolatedError" THEN {"IsolatedError", "ValueError"} ELSE {e}]

\* except (IOError, ValueError)
load_file_catches(exc) == ExceptionBases[exc] \cap {"IOError", "ValueError"} # {}

\* tools.read_json followed by cls.load, before the except clause
read_and_load(file, on_disk) ==
  CASE file.kind = "missing" -> [exc |-> "IOError", out |-> SavedState_init]
    [] file.kind = "malformed" -> [exc |-> "ValueError", out |-> SavedState_init]
    [] file.kind = "array" -> [exc |-> "AttributeError", out |-> SavedState_init]
    [] file.kind = "object" -> SavedState_load(file.data, on_disk)

\* Faulty variant: the except clause keeps the instance that was being
\* loaded when the exception was raised.
load_file_keep(file, on_disk) ==
  LET r == read_and_load(file, on_disk) IN
  IF r.exc = "" THEN [raised |-> "", loaded |-> TRUE, out |-> r.out]
  ELSE IF load_file_catches(r.exc)
    THEN [raised |-> "", loaded |-> FALSE, out |-> r.out]
    ELSE [raised |-> r.exc, loaded |-> FALSE, out |-> SavedState_init]

\* Flattenable.load_file: the loaded instance, or the default instance on
\* IOError and ValueError; 'raised' names an exception that escapes
load_file(file, on_disk) ==
  LET r == read_and_load(file, on_disk) IN
  IF r.exc = "" THEN [raised |-> "", loaded |-> TRUE, out |-> r.out]
  ELSE IF load_file_catches(r.exc)
    THEN [raised |-> "", loaded |-> FALSE, out |-> SavedState_init]
    ELSE [raised |-> r.exc, loaded |-> FALSE, out |-> SavedState_init]

(***************************************************************************)
(* Manifest emission: SavedState.to_isolated, chromium_save_isolated and   *)
(* CompleteState.save_files.                                               *)
(***************************************************************************)
\* the whitelisted keys of strip()
STRIP_KEYS == {"h", "l", "m", "s"}

\* Faulty variant: the entry is emitted as it is
strip_nothing(data) == data

\* strip(data): a 'files' entry with only the whitelisted keys
strip(data) == [k \in (DOMAIN data) \cap STRIP_KEYS |-> data[k]]

\* SavedState.to_isolated
to_isolated(s) ==
  LET out == [algo |-> SUPPORTED_ALGOS_REVERSE[s.algo],
              files |-> [filepath \in DOMAIN s.files |-> strip(s.files[filepath])],
              version |-> ISOLATED_FILE_VERSION]
      with_command ==
        IF s.command # <<>> THEN DictUpdate(out, [command |-> s.command])
        ELSE out
      with_read_only ==
        IF s.read_only # NoneRO
          THEN DictUpdate(with_command, [read_only |-> s.read_only])
          ELSE with_command
  IN
  IF Truthy(s.relative_cwd)
    THEN DictUpdate(with_read_only, [relative_cwd |-> s.relative_cwd])
    ELSE with_read_only

\* os.path.join('test', 'data', '')
TEST_DATA_PREFIX == <<"t", "e", "s", "t", "/", "d", "a", "t", "a", "/">>

\* extract_into_included_isolated(prefix): the files that start with prefix
\* are popped from data into a new slave; the slave counts when it has files
extract_into_included_isolated(data, prefix) ==
  LET taken == {f \in DOMAIN data.files : startswith(f, prefix)}
      new_slave == [algo |-> data.algo,
                    files |-> [f \in taken |-> data.files[f]],
                    version |-> data.version]
  IN
  [data |-> [data EXCEPT !.files = DictWithout(@, taken)],
   slaves |-> IF taken # {} THEN <<new_slave>> ELSE <<>>]

\* if path_variables.get('PRODUCT_DIR')
has_product_dir(path_variables) ==
  /\ "PRODUCT_DIR" \in DOMAIN path_variables
  /\ path_variables["PRODUCT_DIR"] # <<>>

\* isolated_format.hash_file: the digest of a written document stands for
\* its content
hash_file(content, algo) == [algo |-> algo, digest_of |-> content]

\* isolated[:-len('.isolated')] + '.%d.isolated' % index
PRIMARY == "x.isolated"
slavepath(index) ==
  CASE index = 0 -> "x.0.isolated"
    [] index = 1 -> "x.1.isolated"

\* Faulty variant: the includes list is set even when no child was written.
add_includes_always(data, includes) == DictUpdate(data, [includes |-> includes])

\* data.setdefault('includes', []).append(...) in the loop over the children
add_includes(data, includes) ==
  IF includes # <<>> THEN DictUpdate(data, [includes |-> includes]) ELSE data

\* chromium_save_isolated: the documents written, in order, and the list of
\* child file names returned
chromium_save_isolated(data, path_variables, algo) ==
  LET first == extract_into_included_isolated(data, TEST_DATA_PREFIX)
      second ==
        IF has_product_dir(path_variables)
          THEN extract_into_included_isolated(
                 first.data, path_variables["PRODUCT_DIR"])
          ELSE [data |-> first.data, slaves |-> <<>>]
      slaves == first.slaves \o second.slaves
      includes == [i \in 1..Len(slaves) |-> hash_file(slaves[i], algo)]
      primary == add_includes(second.data, includes)
  IN
  [writes |-> [i \in 1..Len(slaves) |->
                 [path |-> slavepath(i - 1), content |-> slaves[i]]]
              \o <<[path |-> PRIMARY, content |-> primary]>>,
   files |-> [i \in 1..Len(slaves) |-> slavepath(i - 1)]]

\* tools.write_json of a sequence of documents onto the disk
RECURSIVE write_all(_, _)
write_all(disk, writes) ==
  IF writes = <<>> THEN disk
  ELSE write_all(
         [n \in (DOMAIN disk) \cup {Head(writes).path} |->
            IF n = Head(writes).path THEN Head(writes).content ELSE disk[n]],
         Tail(writes))

\* Faulty variant: to_isolated hands out the files map of the state itself,
\* so that the files extracted into the child manifests leave the state too.
save_files_shared(s, disk) ==
  LET r == chromium_save_isolated(to_isolated(s), s.path_variables, s.algo)
      primary == r.writes[Len(r.writes)].content
      out == [s EXCEPT !.child_isolated_files = r.files,
                       !.files = [f \in DOMAIN primary.files |-> s.files[f]]]
  IN
  [saved_state |-> out,
   writes |-> r.writes,
   isolated_files |-> write_all(disk, r.writes),
   state_file |-> [kind |-> "object", origin |-> "saved", data |-> flatten(out)]]

\* CompleteState.save_files
save_files(s, disk) ==
  LET r == chromium_save_isolated(to_isolated(s), s.path_variables, s.algo)
      out == [s EXCEPT !.child_isolated_files = r.files]
  IN
  [saved_state |-> out,
   writes |-> r.writes,
   isolated_files |-> write_all(disk, r.writes),
   state_file |-> [kind |-> "object", origin |-> "saved", data |-> flatten(out)]]

(***************************************************************************)
(* Inputs of the update protocol.                                          *)
(***************************************************************************)
Commands == {c \in UNION {[1..n -> {"run"}] : n \in 0..MaxCommandLen} : TRUE}
ReadOnlyArgs == {NoneRO, 0, 1}
RelativeCwds == {".", "sub"}
TouchedLists(P) == {t \in SUBSET P : Cardinality(t) <= MaxTouched}
ConfigArgs == {EmptyDict, [OS |-> "linux"], [OS |-> "mac"]}
S_out == <<"o", "u", "t">>
PathArgs == {EmptyDict, [PRODUCT_DIR |-> S_out]}
ExtraArgs == {EmptyDict, [EXE |-> ".exe"]}

NoOp == [op |-> "init", ok |-> TRUE]

\* no materialization and no save is in progress
TreeIdle == [phase |-> "idle"]
EmptyDir == [isdir |-> TRUE, nodes |-> EmptyDict, perm |-> <<>>]

\* no racing process, and no bot server
NoConcurrency ==
  /\ procs = <<>>
  /\ start_slave_script = ""
  /\ memcache = EmptyDict
  /\ requests = <<>>

NoMaterialization ==
  /\ NoConcurrency
  /\ tree = TreeIdle
  /\ outdir_fs = EmptyDir
  /\ oplog = <<>>
  /\ pending = <<>>

\* a state file that does not exist
NoFile == [kind |-> "missing", origin |-> "none", data |-> EmptyDict]

Init ==
  /\ saved_state = SavedState_init
  /\ state_file = NoFile
  /\ isolated_files = EmptyDict
  /\ isolate_on_disk = AbsIsolateFiles
  /\ last = NoOp
  /\ pc = "api"
  /\ NoMaterialization

UpdateConfig ==
  \E cv \in ConfigArgs :
    /\ saved_state' = update_config(saved_state, cv)
    /\ last' = [op |-> "update_config", ok |-> TRUE, config_variables |-> cv]
    /\ UNCHANGED <<concurrentVars, tree, outdir_fs, oplog, pending,
                   state_file, isolated_files, isolate_on_disk, pc>>

Update ==
  \E f \in AbsIsolateFiles, pv \in PathArgs, ev \in ExtraArgs :
    LET r == update(saved_state, f, pv, ev) IN
    /\ saved_state' = r.out
    /\ last' = [op |-> "update", ok |-> r.ok, isolate_file |-> f,
                path_variables |-> pv, extra_variables |-> ev]
    /\ UNCHANGED <<concurrentVars, tree, outdir_fs, oplog, pending,
                   state_file, isolated_files, isolate_on_disk, pc>>

\* update_isolated with a description that names paths of P
UpdateIsolatedOn(P) ==
  \E command \in Commands, infiles \in SUBSET P, touched \in TouchedLists(P),
     read_only \in ReadOnlyArgs, relative_cwd \in RelativeCwds :
    /\ saved_state' = update_isolated(saved_state, command, infiles, touched,
                                      read_only, relative_cwd)
    /\ last' = [op |-> "update_isolated", ok |-> TRUE, command |-> command,
                infiles |-> infiles, touched |-> touched,
                read_only |-> read_only, relative_cwd |-> relative_cwd,
                prev_keys |-> DOMAIN saved_state.files]
    /\ UNCHANGED <<concurrentVars, tree, outdir_fs, oplog, pending,
                   state_file, isolated_files, isolate_on_disk, pc>>

UpdateIsolated == UpdateIsolatedOn(Paths)

FilesToMetadata ==
  /\ saved_state' = files_to_metadata(saved_state)
  /\ last' = [op |-> "files_to_metadata", ok |-> TRUE]
  /\ UNCHANGED <<concurrentVars, tree, outdir_fs, oplog, pending,
                 state_file, isolated_files, isolate_on_disk, pc>>

\* The diff step and the hashing pass on the files of the description.
Next == UpdateIsolated \/ FilesToMetadata

Spec == Init /\ [][Next]_vars

\* The variable updates.
NextVars == UpdateConfig \/ Update

SpecVars == Init /\ [][NextVars]_vars

\* The three update operations together, on a description of one file.
UpdateIsolatedOne == UpdateIsolatedOn({P_a})

NextProtocol == UpdateConfig \/ Update \/ UpdateIsolatedOne \/ FilesToMetadata

SpecProtocol == Init /\ [][NextProtocol]_vars

(***************************************************************************)
(* The refresh cycle of one process on the manifest path: load_files,      *)
(* load_isolate, files_to_metadata, save_files; between two processes the  *)
(* environment may replace the state file or delete a description.         *)
(***************************************************************************)
\* the description kept in a sub-directory, whose paths may climb
DeepIsolateFile == "/w/s/c.isolate"

\* dirname of the .isolate file, the directory its paths are relative to
isolate_cmd_dir(isolate_file) ==
  IF isolate_file = DeepIsolateFile THEN "/w/s" ELSE "/w"

\* an absolute directory as the sequence of its components, and back
DirParts(dir) ==
  CASE dir = "/" -> <<>>
    [] dir = "/w" -> << <<"w">> >>
    [] dir = "/w/s" -> << <<"w">>, <<"s">> >>

DirOf(parts) ==
  CASE parts = <<>> -> "/"
    [] parts = << <<"w">> >> -> "/w"
    [] parts = << <<"w">>, <<"s">> >> -> "/w/s"

\* str.split('/') of a relative path
RECURSIVE split(_)
split(p) ==
  IF p = <<>> THEN <<>>
  ELSE LET seps == {i \in DOMAIN p : p[i] = "/"}
           cut == IF seps = {} THEN Len(p) + 1
                  ELSE CHOOSE i \in seps : \A k \in seps : i <= k
       IN <<SubSeq(p, 1, cut - 1)>> \o split(SubSeq(p, cut + 1, Len(p)))

\* '/'.join of the components of a relative path
RECURSIVE joinparts(_)
joinparts(parts) ==
  IF parts = <<>> THEN <<".">>
  ELSE IF Len(parts) = 1 THEN Head(parts)
  ELSE Head(parts) \o <<"/">> \o joinparts(Tail(parts))

\* os.path.normpath on the components of an absolute path: '.' and empty
\* components are dropped, '..' drops the component before it
RECURSIVE normparts(_, _)
normparts(acc, rest) ==
  IF rest = <<>> THEN acc
  ELSE LET c == Head(rest) IN
       normparts(IF c = <<".", ".">>
                   THEN SubSeq(acc, 1, Len(acc) - 1)
                 ELSE IF c = <<".">> \/ c = <<>> THEN acc
                 ELSE Append(acc, c),
                 Tail(rest))

\* the number of '..' components a relative path starts with
RECURSIVE leading_dotdots(_)
leading_dotdots(parts) ==
  IF parts # <<>> /\ Head(parts) = <<".", ".">>
    THEN 1 + leading_dotdots(Tail(parts))
    ELSE 0

\* isolate_format.determine_root_dir: the deepest directory that holds
\* relative_root and every path given relative to it, found from how far up
\* the paths of the form '../../foo/bar' reach
determine_root_dir(relative_root, infiles) ==
  LET ups == {leading_dotdots(split(i)) : i \in infiles} \cup {0}
      up == CHOOSE k \in ups : \A n \in ups : n <= k
      parts == DirParts(relative_root)
  IN DirOf(SubSeq(parts, 1, Len(parts) - up))

\* Faulty variant: the path variables are left out of the root inference.
root_inputs_without_variables(infiles, touched, path_variables) ==
  infiles \cup touched

\* infiles + touched + self.saved_state.path_variables.values()
root_inputs(infiles, touched, path_variables) ==
  infiles \cup touched \cup {path_variables[k] : k \in DOMAIN path_variables}

\* the components of os.path.relpath(dir, root_dir), dir being under root_dir
relparts(dir, root_dir) ==
  SubSeq(DirParts(dir), Len(DirParts(root_dir)) + 1, Len(DirParts(dir)))

\* os.path.relpath(isolate_cmd_dir, root_dir)
relpath_cwd(dir, root_dir) ==
  LET parts == relparts(dir, root_dir) IN
  CASE parts = <<>> -> "."
    [] parts = << <<"s">> >> -> "s"
    [] parts = << <<"w">> >> -> "w"
    [] parts = << <<"w">>, <<"s">> >> -> "w/s"

\* file_path.path_starts_with(prefix, path): the components of prefix are
\* the first components of the normalized path
path_starts_with(prefix, path_parts) ==
  LET root == DirParts(prefix)
      path == normparts(<<>>, path_parts)
  IN /\ Len(root) <= Len(path)
     /\ SubSeq(path, 1, Len(root)) = root

\* dest = os.path.join(isolate_cmd_dir, relative_cwd, v), as components
dest_of(dir, root_dir, v) ==
  DirParts(dir) \o relparts(dir, root_dir) \o split(v)

\* the path variables that fail the check of load_isolate
points_outside(dir, root_dir, path_variables) ==
  {k \in DOMAIN path_variables :
     ~path_starts_with(root_dir, dest_of(dir, root_dir, path_variables[k]))}

\* file_path.relpath(file_path.normpath(os.path.join(isolate_cmd_dir, f)),
\* root_dir)
root_relative(dir, root_dir, f) ==
  LET path == normparts(<<>>, DirParts(dir) \o split(f)) IN
  joinparts(SubSeq(path, Len(DirParts(root_dir)) + 1, Len(path)))

\* CompleteState.load_isolate on a parsed description d
load_isolate(s, d) ==
  LET dir == isolate_cmd_dir(d.isolate_file)
      s1 == update_config(s, d.config_variables)
      r == update(s1, d.isolate_file, d.path_variables, d.extra_variables)
      root_dir == determine_root_dir(
                    dir, root_inputs(d.infiles, d.touched,
                                     r.out.path_variables))
      s2 == [r.out EXCEPT !.root_dir = root_dir]
  IN
  IF ~r.ok THEN [exc |-> "AssertionError", out |-> s1]
  ELSE IF points_outside(dir, root_dir, s2.path_variables) # {}
    THEN [exc |-> "MappingError", out |-> s2]
  ELSE [exc |-> "",
        out |-> update_isolated(
                  s2, d.command,
                  {root_relative(dir, root_dir, f) : f \in d.infiles},
                  {root_relative(dir, root_dir, f) : f \in d.touched},
                  d.read_only, relpath_cwd(dir, root_dir))]

\* The parsed descriptions and options of the refresh cycles.
DescInfiles == {AllPaths, {P_a, P_outer}, {P_test_data_b, P_out_c}, {P_a}}
DescTouched == {{}, {P_a}}

Descriptions ==
  [isolate_file : AbsIsolateFiles,
   config_variables : {[OS |-> "linux"]},
   path_variables : PathArgs,
   extra_variables : {EmptyDict},
   command : {<<"run">>},
   infiles : DescInfiles,
   touched : DescTouched,
   read_only : {1}]

InitCycle ==
  /\ saved_state = SavedState_init
  /\ state_file = NoFile
  /\ isolated_files = EmptyDict
  /\ isolate_on_disk = AbsIsolateFiles
  /\ last = NoOp
  /\ pc = "idle"
  /\ NoMaterialization

\* CompleteState.load_files at the start of a process
LoadFiles ==
  /\ pc = "idle"
  /\ LET r == load_file(state_file, isolate_on_disk) IN
     /\ saved_state' = r.out
     /\ last' = [op |-> "load_files", ok |-> r.raised = "",
                 loaded |-> r.loaded, raised |-> r.raised]
     /\ pc' = IF r.raised = "" THEN "loaded" ELSE "idle"
  /\ UNCHANGED <<concurrentVars, tree, outdir_fs, oplog, pending,
                 state_file, isolated_files, isolate_on_disk>>

\* CompleteState.load_isolate; an exception ends the process
LoadIsolate ==
  /\ pc = "loaded"
  /\ \E d \in Descriptions :
       /\ d.isolate_file \in isolate_on_disk
       /\ LET r == load_isolate(saved_state, d) IN
          /\ saved_state' = IF r.exc = "" THEN r.out ELSE SavedState_init
          /\ last' = [op |-> "load_isolate", ok |-> r.exc = "", d |-> d]
          /\ pc' = IF r.exc = "" THEN "updated" ELSE "idle"
  /\ UNCHANGED <<concurrentVars, tree, outdir_fs, oplog, pending,
                 state_file, isolated_files, isolate_on_disk>>

\* CompleteState.files_to_metadata in the cycle
HashFiles ==
  /\ pc = "updated"
  /\ saved_state' = files_to_metadata(saved_state)
  /\ last' = [op |-> "files_to_metadata", ok |-> TRUE]
  /\ pc' = "hashed"
  /\ UNCHANGED <<concurrentVars, tree, outdir_fs, oplog, pending,
                 state_file, isolated_files, isolate_on_disk>>

\* CompleteState.save_files, after which the process ends
SaveFiles ==
  /\ pc = "hashed"
  /\ LET r == save_files(saved_state, isolated_files) IN
     /\ saved_state' = SavedState_init
     /\ isolated_files' = r.isolated_files
     /\ state_file' = r.state_file
     /\ last' = [op |-> "save_files", ok |-> TRUE, saved |-> r.saved_state,
                 writes |-> r.writes, source |-> saved_state]
  /\ pc' = "idle"
  /\ UNCHANGED <<concurrentVars, tree, outdir_fs, oplog, pending, isolate_on_disk>>

\* The documents another program, platform or version leaves in place of a
\* saved state file.
ForeignKinds ==
  {"other_os", "no_os", "minor_version", "unknown_algo", "unknown_member",
   "absolute_isolate", "missing", "malformed", "array"}

MINOR_VERSION == ISOLATED_FILE_VERSION \o <<"1">>

Foreign(data, k) ==
  CASE k = "other_os" -> [kind |-> "object", data |-> [data EXCEPT !.OS = OtherPlatform]]
    [] k = "no_os" -> [kind |-> "object", data |-> DictWithout(data, {"OS"})]
    [] k = "minor_version" ->
         [kind |-> "object", data |-> [data EXCEPT !.version = MINOR_VERSION]]
    [] k = "unknown_algo" ->
         [kind |-> "object", data |-> [data EXCEPT !.algo = "sha-0"]]
    [] k = "unknown_member" ->
         [kind |-> "object", data |-> DictUpdate(data, [mtime |-> 1])]
    [] k = "absolute_isolate" ->
         [kind |-> "object",
          data |-> DictUpdate(data, [isolate_file |-> "/w/a.isolate"])]
    [] OTHER -> [kind |-> k, data |-> EmptyDict]

ReplaceStateFile ==
  /\ pc = "idle"
  /\ state_file.origin = "saved"
  /\ \E k \in ForeignKinds :
       /\ state_file' = DictUpdate(Foreign(state_file.data, k),
                                   [origin |-> k])
       /\ last' = [op |-> "replace_state_file", ok |-> TRUE, how |-> k]
  /\ UNCHANGED <<concurrentVars, tree, outdir_fs, oplog, pending,
                 saved_state, isolated_files, isolate_on_disk, pc>>

\* The description the environment may delete between two processes.
Deletable == {"/w/a.isolate"}

DeleteIsolate ==
  /\ pc = "idle"
  /\ \E f \in isolate_on_disk \cap Deletable :
       /\ isolate_on_disk' = isolate_on_disk \ {f}
       /\ last' = [op |-> "delete_isolate", ok |-> TRUE, isolate_file |-> f]
  /\ UNCHANGED <<concurrentVars, tree, outdir_fs, oplog, pending,
                 saved_state, state_file, isolated_files, pc>>

NextCycle ==
  \/ LoadFiles
  \/ LoadIsolate
  \/ HashFiles
  \/ SaveFiles
  \/ ReplaceStateFile
  \/ DeleteIsolate

SpecCycle == InitCycle /\ [][NextCycle]_vars

(***************************************************************************)
(* The commands: load_complete_state and CMDarchive.                       *)
(***************************************************************************)
\* Faulty variant: the loaded state is kept whatever --isolate names.
isolate_was_moved_never(given, recorded, isolate) == FALSE

\* options.isolate is given, the state records a description, and
\* rel_isolate != complete_state.saved_state.isolate_file
isolate_was_moved(given, recorded, isolate) ==
  /\ given
  /\ Truthy(recorded)
  /\ safe_relpath(isolate) # recorded

\* load_complete_state(options, cwd, subdir, skip_update=False) with
\* options.isolated set; d holds the options and the parsed description and
\* given tells whether --isolate was passed.  discarded tells that the loaded
\* state was replaced by a new SavedState.
load_complete_state(file, on_disk, d, given) ==
  LET loaded == load_file(file, on_disk)
      s0 == loaded.out
      discarded == isolate_was_moved(given, s0.isolate_file, d.isolate_file)
      s1 == IF discarded THEN SavedState_init ELSE s0
      isolate == IF given THEN d.isolate_file
                 ELSE isolate_filepath(s0.isolate_file)
  IN
  IF loaded.raised # ""
    THEN [exc |-> loaded.raised, out |-> SavedState_init,
          discarded |-> FALSE, before_update |-> SavedState_init]
  ELSE IF ~given /\ ~Truthy(s0.isolate_file)
    THEN [exc |-> "ExecutionError", out |-> s0,
          discarded |-> FALSE, before_update |-> s0]
  ELSE IF isolate \notin on_disk
    THEN [exc |-> "IOError", out |-> update_config(s1, d.config_variables),
          discarded |-> discarded, before_update |-> s1]
  ELSE
    LET r == load_isolate(s1, [d EXCEPT !.isolate_file = isolate]) IN
    [exc |-> r.exc,
     out |-> IF r.exc = "" THEN files_to_metadata(r.out) ELSE r.out,
     discarded |-> discarded, before_update |-> s1]

\* Faulty variant: the primary manifest is left in place after a failure.
archive_finally_keep(success, disk) == disk

\* finally: if not success and os.path.isfile(options.isolated):
\*   os.remove(options.isolated)
archive_finally(success, disk) ==
  IF ~success /\ PRIMARY \in DOMAIN disk
    THEN DictWithout(disk, {PRIMARY})
    ELSE disk

\* the options and descriptions of the commands
CommandOptions ==
  {d \in Descriptions : d.touched = {} /\ d.infiles \in {AllPaths, {P_a}}}

\* CMDarchive up to the end of prepare_for_archival; an exception runs the
\* finally clause and ends the command
ArchivePrepare ==
  /\ pc = "idle"
  /\ \E d \in CommandOptions, given \in BOOLEAN :
       LET c == load_complete_state(state_file, isolate_on_disk, d, given)
           r == save_files(c.out, isolated_files)
       IN
       IF c.exc # ""
         THEN /\ saved_state' = SavedState_init
              /\ isolated_files' = archive_finally(FALSE, isolated_files)
              /\ UNCHANGED state_file
              /\ last' = [op |-> "archive", ok |-> FALSE, done |-> TRUE,
                          success |-> FALSE, failed_in |-> "prepare",
                          exc |-> c.exc, returned |-> NoneRO]
              /\ pc' = "idle"
         ELSE /\ saved_state' = r.saved_state
              /\ isolated_files' = r.isolated_files
              /\ state_file' = r.state_file
              /\ last' = [op |-> "archive", ok |-> TRUE, done |-> FALSE,
                          success |-> FALSE, failed_in |-> "",
                          exc |-> "", returned |-> NoneRO]
              /\ pc' = "prepared"
  /\ UNCHANGED <<concurrentVars, tree, outdir_fs, oplog, pending, isolate_on_disk>>

\* isolateserver.upload_tree, which succeeds or raises, then the finally
\* clause and the return of CMDarchive
ArchiveUpload ==
  /\ pc = "prepared"
  /\ \E uploaded \in BOOLEAN :
       /\ isolated_files' = archive_finally(uploaded, isolated_files)
       /\ last' = [op |-> "archive", ok |-> uploaded, done |-> TRUE,
                   success |-> uploaded,
                   failed_in |-> IF uploaded THEN "" ELSE "upload_tree",
                   exc |-> IF uploaded THEN "" ELSE "Exception",
                   returned |-> IF uploaded THEN 0 ELSE NoneRO]
  /\ saved_state' = SavedState_init
  /\ pc' = "idle"
  /\ UNCHANGED <<concurrentVars, tree, outdir_fs, oplog, pending,
                 state_file, isolate_on_disk>>

NextArchive ==
  \/ ArchivePrepare
  \/ ArchiveUpload
  \/ ReplaceStateFile
  \/ DeleteIsolate

SpecArchive == InitCycle /\ [][NextArchive]_vars

\* the --config-variable, --path-variable and --extra-variable options of a
\* call, with the description they are applied to
VariableOptions ==
  [isolate_file : AbsIsolateFiles,
   config_variables : ConfigArgs,
   path_variables : PathArgs,
   extra_variables : ExtraArgs,
   command : {<<"run">>},
   infiles : {{P_a}},
   touched : {{}},
   read_only : {1}]

\* CMDcheck: load_complete_state, then save_files; an exception of
\* load_complete_state ends the command before anything is written
CMDcheck ==
  /\ pc = "idle"
  /\ \E d \in VariableOptions, given \in BOOLEAN :
       LET c == load_complete_state(state_file, isolate_on_disk, d, given)
           r == save_files(c.out, isolated_files)
       IN
       /\ last' = [op |-> "check", ok |-> c.exc = "", d |-> d,
                   given |-> given, discarded |-> c.discarded,
                   loaded |-> load_file(state_file, isolate_on_disk).loaded,
                   before_update |-> c.before_update, exc |-> c.exc]
       /\ IF c.exc # ""
            THEN UNCHANGED <<state_file, isolated_files>>
            ELSE /\ isolated_files' = r.isolated_files
                 /\ state_file' = r.state_file
  /\ saved_state' = SavedState_init
  /\ UNCHANGED <<concurrentVars, tree, outdir_fs, oplog, pending, isolate_on_disk, pc>>

NextCheck ==
  \/ CMDcheck
  \/ ReplaceStateFile
  \/ DeleteIsolate

SpecCheck == InitCycle /\ [][NextCheck]_vars

(***************************************************************************)
(* save_files one write at a time: tools.write_json puts a whole document  *)
(* on disk, and the process may be killed between two writes.              *)
(***************************************************************************)
\* Faulty variant: the state file is written before the manifests.
save_order_state_first(manifests, state) ==
  <<[target |-> "state", path |-> "x.isolated.state", content |-> state]>>
  \o [i \in DOMAIN manifests |->
        [target |-> "isolated", path |-> manifests[i].path,
         content |-> manifests[i].content]]

\* the writes of save_files in the order of its statements: the documents of
\* chromium_save_isolated, then write_json of the state file
save_order(manifests, state) ==
  [i \in DOMAIN manifests |->
     [target |-> "isolated", path |-> manifests[i].path,
      content |-> manifests[i].content]]
  \o <<[target |-> "state", path |-> "x.isolated.state", content |-> state]>>

\* the descriptions of the cycles that save
SaveDescriptions ==
  {d \in Descriptions :
     /\ d.isolate_file = "/w/a.isolate"
     /\ d.touched = {}
     /\ d.infiles \in {AllPaths, {P_a}}}

LoadIsolateSave ==
  /\ pc = "loaded"
  /\ \E d \in SaveDescriptions :
       LET r == load_isolate(saved_state, d) IN
       /\ saved_state' = IF r.exc = "" THEN r.out ELSE SavedState_init
       /\ last' = [op |-> "load_isolate", ok |-> r.exc = "", d |-> d]
       /\ pc' = IF r.exc = "" THEN "updated" ELSE "idle"
  /\ UNCHANGED <<concurrentVars, tree, outdir_fs, oplog, pending,
                 state_file, isolated_files, isolate_on_disk>>

\* CompleteState.save_files is entered: the documents are built in memory
BeginSave ==
  /\ pc = "hashed"
  /\ LET r == save_files(saved_state, isolated_files)
         plan == save_order(r.writes, r.state_file)
     IN
     /\ pending' = plan
     /\ saved_state' = r.saved_state
     /\ last' = [op |-> "save_files", ok |-> TRUE, plan |-> plan,
                 written |-> 0, crashed |-> FALSE,
                 before |-> [state_file |-> state_file,
                             isolated_files |-> isolated_files]]
  /\ pc' = "saving"
  /\ UNCHANGED <<concurrentVars, tree, outdir_fs, oplog,
                 state_file, isolated_files, isolate_on_disk>>

\* tools.write_json of the next document; the process ends after the last
WriteNext ==
  /\ pc = "saving"
  /\ pending # <<>>
  /\ LET w == Head(pending) IN
     IF w.target = "state"
       THEN /\ state_file' = w.content
            /\ UNCHANGED isolated_files
       ELSE /\ isolated_files' = write_all(isolated_files, <<w>>)
            /\ UNCHANGED state_file
  /\ pending' = Tail(pending)
  /\ last' = [last EXCEPT !.written = @ + 1]
  /\ pc' = IF Tail(pending) = <<>> THEN "idle" ELSE "saving"
  /\ saved_state' = IF Tail(pending) = <<>> THEN SavedState_init
                    ELSE saved_state
  /\ UNCHANGED <<concurrentVars, tree, outdir_fs, oplog, isolate_on_disk>>

\* the process is killed between two writes of save_files
Crash ==
  /\ pc = "saving"
  /\ pending' = <<>>
  /\ saved_state' = SavedState_init
  /\ last' = [last EXCEPT !.crashed = TRUE]
  /\ pc' = "idle"
  /\ UNCHANGED <<concurrentVars, tree, outdir_fs, oplog,
                 state_file, isolated_files, isolate_on_disk>>

NextSave ==
  \/ LoadFiles
  \/ LoadIsolateSave
  \/ HashFiles
  \/ BeginSave
  \/ WriteNext
  \/ Crash

SpecSave == InitCycle /\ [][NextSave]_vars

(***************************************************************************)
(* Two processes refresh the same manifest path with no lock: each reads   *)
(* the state file, then writes its documents one at a time, and the writes *)
(* of the two interleave.                                                  *)
(***************************************************************************)
ProcIds == {1, 2}

\* Faulty variant: the document is written over the old one field by field
\* and the files of the old one are left in place.
write_json_keep_files(old, content) ==
  IF old.kind = "object" /\ "files" \in DOMAIN old.data
    THEN [content EXCEPT !.data.files = old.data.files]
    ELSE content

\* tools.write_json(filepath, data, dense): the document at the path is
\* replaced by the whole new document
write_json(old, content) == content

\* the steps of save_files of one process: each child manifest is written and
\* then hashed from the disk, then the primary manifest and the state file
\* are written
save_steps(r) ==
  LET n == Len(r.writes) - 1 IN
  [i \in 1..(2 * n) |->
     IF i % 2 = 1
       THEN [target |-> "child", path |-> r.writes[(i + 1) \div 2].path,
             content |-> r.writes[(i + 1) \div 2].content]
       ELSE [target |-> "hash", path |-> r.writes[i \div 2].path,
             content |-> EmptyDict]]
  \o <<[target |-> "primary", path |-> PRIMARY,
        content |-> DictWithout(r.writes[n + 1].content, {"includes"})],
       [target |-> "state", path |-> "x.isolated.state",
        content |-> r.state_file]>>

NotStarted ==
  [pc |-> "start", saved_state |-> SavedState_init, pending |-> <<>>,
   includes |-> <<>>]

InitRace ==
  /\ saved_state = SavedState_init
  /\ state_file = NoFile
  /\ isolated_files = EmptyDict
  /\ isolate_on_disk = AbsIsolateFiles
  /\ last = [op |-> "init", ok |-> TRUE, state_writer |-> 0]
  /\ pc = "race"
  /\ tree = TreeIdle
  /\ outdir_fs = EmptyDir
  /\ oplog = <<>>
  /\ pending = <<>>
  /\ procs = [p \in ProcIds |-> NotStarted]
  /\ start_slave_script = ""
  /\ memcache = EmptyDict
  /\ requests = <<>>

RaceFrame ==
  UNCHANGED <<saved_state, isolate_on_disk, pc, tree, outdir_fs, oplog,
              pending, start_slave_script, memcache, requests>>

\* load_complete_state of one process, up to the entry of save_files: the
\* state file is read once, the documents are built in memory
ProcRefresh ==
  \E p \in ProcIds, d \in SaveDescriptions :
    LET c == load_complete_state(state_file, isolate_on_disk, d, TRUE)
        r == save_files(c.out, EmptyDict)
    IN
    /\ procs[p].pc \in {"start", "done"}
    /\ procs' = [procs EXCEPT ![p] =
                   IF c.exc # ""
                     THEN [pc |-> "done", saved_state |-> c.out,
                           pending |-> <<>>, includes |-> <<>>]
                     ELSE [pc |-> "saving", saved_state |-> r.saved_state,
                           pending |-> save_steps(r), includes |-> <<>>]]
    /\ last' = [op |-> "refresh", ok |-> c.exc = "",
                state_writer |-> last.state_writer]
    /\ UNCHANGED <<state_file, isolated_files>>
    /\ RaceFrame

\* tools.write_json(slavepath, f, True)
ProcWriteChild ==
  \E p \in ProcIds :
    /\ procs[p].pc = "saving"
    /\ Head(procs[p].pending).target = "child"
    /\ isolated_files' = write_all(isolated_files, <<Head(procs[p].pending)>>)
    /\ procs' = [procs EXCEPT ![p].pending = Tail(@)]
    /\ last' = [op |-> "write_child", ok |-> TRUE,
                state_writer |-> last.state_writer]
    /\ UNCHANGED state_file
    /\ RaceFrame

\* isolated_format.hash_file(slavepath, algo), which reads the file back
ProcHashChild ==
  \E p \in ProcIds :
    /\ procs[p].pc = "saving"
    /\ Head(procs[p].pending).target = "hash"
    /\ procs' = [procs EXCEPT
                   ![p].pending = Tail(@),
                   ![p].includes =
                     Append(@, hash_file(
                                 isolated_files[Head(procs[p].pending).path],
                                 procs[p].saved_state.algo))]
    /\ last' = [op |-> "hash_child", ok |-> TRUE,
                state_writer |-> last.state_writer]
    /\ UNCHANGED <<state_file, isolated_files>>
    /\ RaceFrame

\* isolated_format.save_isolated(isolated, data)
ProcWritePrimary ==
  \E p \in ProcIds :
    /\ procs[p].pc = "saving"
    /\ Head(procs[p].pending).target = "primary"
    /\ isolated_files' =
         write_all(isolated_files,
                   <<[Head(procs[p].pending) EXCEPT
                        !.content = add_includes(@, procs[p].includes)]>>)
    /\ procs' = [procs EXCEPT ![p].pending = Tail(@)]
    /\ last' = [op |-> "write_primary", ok |-> TRUE,
                state_writer |-> last.state_writer]
    /\ UNCHANGED state_file
    /\ RaceFrame

\* tools.write_json(saved_state_file, self.saved_state.flatten(), True),
\* after which the process ends
ProcWriteState ==
  \E p \in ProcIds :
    /\ procs[p].pc = "saving"
    /\ Head(procs[p].pending).target = "state"
    /\ state_file' = write_json(state_file, Head(procs[p].pending).content)
    /\ procs' = [procs EXCEPT ![p].pending = Tail(@), ![p].pc = "done"]
    /\ last' = [op |-> "write_state", ok |-> TRUE, state_writer |-> p]
    /\ UNCHANGED isolated_files
    /\ RaceFrame

NextRace ==
  \/ ProcRefresh
  \/ ProcWriteChild
  \/ ProcHashChild
  \/ ProcWritePrimary
  \/ ProcWriteState

SpecRace == InitRace /\ [][NextRace]_vars

(***************************************************************************)
(* The bot server (server/bot_management.py): store_start_slave stores a   *)
(* new start slave script and flushes memcache, while get_slave_version    *)
(* and get_swarming_bot_zip calls compute and cache the version and the    *)
(* zip of the bot code.  Every access to the datastore or to memcache is   *)
(* one step, and the steps of the calls in progress interleave.            *)
(***************************************************************************)
\* the script of the tree, swarm_bot/start_slave.py
TreeScript == "tree"
\* the scripts an administrator stores
Scripts == {"s1", "s2"}
Hosts == {"h1"}

\* the one store_start_slave call and the calls of the bots
STORE == 0
Readers == {1, 2}

\* get_start_slave: the stored script if there is one, else the one of the
\* tree
get_start_slave(stored) == IF stored # "" THEN stored ELSE TreeScript

\* bot_archive.get_swarming_bot_version(bot_dir, host, additionals): a digest
\* of the bot code, the host and the script
get_swarming_bot_version(host, script) == <<"version", host, script>>

\* bot_archive.get_swarming_bot_zip(bot_dir, host, additionals)
bot_archive_zip(host, script) == <<"zip", host, script>>

\* key = 'bot_version' + host
version_key(host) == <<"bot_version", host>>

\* key = 'bot_version-%s' + get_slave_version(host)
zip_key(version) == <<"bot_version-%s">> \o version

\* memcache.get: None on a miss
memcache_get(cache, key) == IF key \in DOMAIN cache THEN cache[key] ELSE <<>>

\* memcache.set
memcache_set(cache, key, value) ==
  [k \in DOMAIN cache \cup {key} |-> IF k = key THEN value ELSE cache[k]]

NoCall ==
  [call |-> "none", pc |-> "idle", host |-> "", script |-> "",
   version |-> <<>>, later |-> FALSE]

InitBot ==
  /\ saved_state = SavedState_init
  /\ state_file = NoFile
  /\ isolated_files = EmptyDict
  /\ isolate_on_disk = AbsIsolateFiles
  /\ last = NoOp
  /\ pc = "server"
  /\ tree = TreeIdle
  /\ outdir_fs = EmptyDir
  /\ oplog = <<>>
  /\ pending = <<>>
  /\ procs = <<>>
  /\ start_slave_script = ""
  /\ memcache = EmptyDict
  /\ requests = [r \in {STORE} \cup Readers |-> NoCall]

BotFrame ==
  UNCHANGED <<saved_state, state_file, isolated_files, isolate_on_disk, pc,
              tree, outdir_fs, oplog, pending, procs>>

\* the call r returns value
Return(r, value) ==
  /\ last' = [op |-> "return", ok |-> TRUE, call |-> requests[r].call,
              host |-> requests[r].host, later |-> requests[r].later,
              value |-> value]

\* file_chunks.StoreFile(START_SLAVE_SCRIPT_KEY, script) of store_start_slave;
\* no call in progress is later than this store
StoreFile ==
  \E script \in Scripts :
    /\ requests[STORE].pc = "idle"
    /\ start_slave_script' = script
    /\ requests' = [r \in DOMAIN requests |->
                      IF r = STORE
                        THEN [NoCall EXCEPT !.call = "store_start_slave",
                                            !.pc = "flush",
                                            !.script = script]
                        ELSE [requests[r] EXCEPT !.later = FALSE]]
    /\ last' = [op |-> "StoreFile", ok |-> TRUE, script |-> script]
    /\ UNCHANGED memcache
    /\ BotFrame

\* while not memcache.flush_all(): pass; then store_start_slave returns
FlushAll ==
  \E flushed \in BOOLEAN :
    /\ requests[STORE].pc = "flush"
    /\ memcache' = IF flushed THEN EmptyDict ELSE memcache
    /\ requests' = IF flushed THEN [requests EXCEPT ![STORE] = NoCall]
                   ELSE requests
    /\ last' = [op |-> "flush_all", ok |-> flushed,
                script |-> requests[STORE].script]
    /\ UNCHANGED start_slave_script
    /\ BotFrame

\* a call of get_slave_version(host) or get_swarming_bot_zip(host) up to
\* bot_version = memcache.get(key, namespace=namespace); a hit ends
\* get_slave_version
GetVersion ==
  \E r \in Readers, host \in Hosts,
     call \in {"get_slave_version", "get_swarming_bot_zip"} :
    LET bot_version == memcache_get(memcache, version_key(host))
        started == [NoCall EXCEPT !.call = call, !.host = host,
                                  !.later = requests[STORE].pc = "idle"]
    IN
    /\ requests[r].pc = "idle"
    /\ IF bot_version = <<>>
         THEN /\ requests' = [requests EXCEPT
                                ![r] = [started EXCEPT !.pc = "version_read"]]
              /\ last' = [op |-> "memcache.get", ok |-> FALSE]
         ELSE IF call = "get_slave_version"
           THEN /\ requests' = [requests EXCEPT ![r] = NoCall]
                /\ last' = [op |-> "return", ok |-> TRUE, call |-> call,
                            host |-> host, later |-> started.later,
                            value |-> bot_version]
           ELSE /\ requests' = [requests EXCEPT
                                  ![r] = [started EXCEPT
                                            !.pc = "zip_get",
                                            !.version = bot_version]]
                /\ last' = [op |-> "memcache.get", ok |-> TRUE]
    /\ UNCHANGED <<start_slave_script, memcache>>
    /\ BotFrame

\* additionals = {'start_slave.py': get_start_slave()} in get_slave_version
ReadScriptForVersion ==
  \E r \in Readers :
    /\ requests[r].pc = "version_read"
    /\ requests' = [requests EXCEPT
                      ![r].script = get_start_slave(start_slave_script),
                      ![r].pc = "version_set"]
    /\ last' = [op |-> "get_start_slave", ok |-> TRUE]
    /\ UNCHANGED <<start_slave_script, memcache>>
    /\ BotFrame

\* memcache.set(key, bot_version, namespace=namespace); return bot_version
SetVersion ==
  \E r \in Readers :
    LET bot_version == get_swarming_bot_version(requests[r].host,
                                                requests[r].script)
    IN
    /\ requests[r].pc = "version_set"
    /\ memcache' = memcache_set(memcache, version_key(requests[r].host),
                                bot_version)
    /\ IF requests[r].call = "get_slave_version"
         THEN /\ requests' = [requests EXCEPT ![r] = NoCall]
              /\ Return(r, bot_version)
         ELSE /\ requests' = [requests EXCEPT ![r].pc = "zip_get",
                                              ![r].version = bot_version]
              /\ last' = [op |-> "memcache.set", ok |-> TRUE]
    /\ UNCHANGED start_slave_script
    /\ BotFrame

\* code = memcache.get(key, namespace=namespace) in get_swarming_bot_zip
GetZip ==
  \E r \in Readers :
    LET code == memcache_get(memcache, zip_key(requests[r].version)) IN
    /\ requests[r].pc = "zip_get"
    /\ IF code = <<>>
         THEN /\ requests' = [requests EXCEPT ![r].pc = "zip_read"]
              /\ last' = [op |-> "memcache.get", ok |-> FALSE]
         ELSE /\ requests' = [requests EXCEPT ![r] = NoCall]
              /\ Return(r, code)
    /\ UNCHANGED <<start_slave_script, memcache>>
    /\ BotFrame

\* additionals = {'start_slave.py': get_start_slave()} in
\* get_swarming_bot_zip
ReadScriptForZip ==
  \E r \in Readers :
    /\ requests[r].pc = "zip_read"
    /\ requests' = [requests EXCEPT
                      ![r].script = get_start_slave(start_slave_script),
                      ![r].pc = "zip_set"]
    /\ last' = [op |-> "get_start_slave", ok |-> TRUE]
    /\ UNCHANGED <<start_slave_script, memcache>>
    /\ BotFrame

\* memcache.set(key, code, namespace=namespace); return code
SetZip ==
  \E r \in Readers :
    LET code == bot_archive_zip(requests[r].host, requests[r].script) IN
    /\ requests[r].pc = "zip_set"
    /\ memcache' = memcache_set(memcache, zip_key(requests[r].version), code)
    /\ requests' = [requests EXCEPT ![r] = NoCall]
    /\ Return(r, code)
    /\ UNCHANGED start_slave_script
    /\ BotFrame

NextBot ==
  \/ StoreFile
  \/ FlushAll
  \/ GetVersion
  \/ ReadScriptForVersion
  \/ SetVersion
  \/ GetZip
  \/ ReadScriptForZip
  \/ SetZip

SpecBot == InitBot /\ [][NextBot]_vars

(***************************************************************************)
(* load_isolate on a description kept in /w/s whose files and path         *)
(* variables climb above its directory.                                    *)
(***************************************************************************)
MaxClimb == 2        \* at most this many leading '..' in a path

\* the relative path name below k parent directories
RECURSIVE Up(_, _)
Up(k, name) == IF k = 0 THEN name ELSE <<".", ".", "/">> \o Up(k - 1, name)

Climbs == 0..MaxClimb

\* path variables as normalize_path_variables leaves them: relative to the
\* directory of the description
RootPathArgs ==
  {EmptyDict}
  \cup {[PRODUCT_DIR |-> Up(k, S_out)] : k \in Climbs}
  \cup {[PRODUCT_DIR |-> S_out, DEPTH |-> Up(k, <<"l", "i", "b">>)] :
          k \in Climbs}

RootDescriptions ==
  [isolate_file : {DeepIsolateFile},
   config_variables : {[OS |-> "linux"]},
   path_variables : RootPathArgs,
   extra_variables : {EmptyDict},
   command : {<<"run">>},
   infiles : {{Up(k, P_a)} : k \in Climbs},
   touched : {{}},
   read_only : {1}]

\* CompleteState.load_isolate; the SavedState keeps what was assigned before
\* an exception, and the exception ends the process
LoadIsolateRoot ==
  /\ pc = "loaded"
  /\ \E d \in RootDescriptions :
       LET r == load_isolate(saved_state, d) IN
       /\ saved_state' = r.out
       /\ last' = [op |-> "load_isolate", ok |-> r.exc = "", exc |-> r.exc,
                   d |-> d,
                   prev |-> [files |-> saved_state.files,
                             command |-> saved_state.command,
                             read_only |-> saved_state.read_only,
                             relative_cwd |-> saved_state.relative_cwd]]
       /\ pc' = IF r.exc = "" THEN "loaded" ELSE "idle"
  /\ UNCHANGED <<concurrentVars, tree, outdir_fs, oplog, pending,
                 state_file, isolated_files, isolate_on_disk>>

NextRoot == LoadFiles \/ LoadIsolateRoot

SpecRoot == InitCycle /\ [][NextRoot]_vars

(***************************************************************************)
(* Materialization: recreate_tree and create_isolate_tree.  The            *)
(* destination outdir is a record: isdir tells whether outdir exists,      *)
(* nodes maps a name under outdir to a file, a directory or a symlink, and *)
(* perm is <<>> until change_tree_read_only applied a policy.  A name is a *)
(* hash in as_hash mode and a relative path otherwise; <<>> is outdir      *)
(* itself.  oplog lists the operations done on the destination, in order.  *)
(***************************************************************************)
MaxEntries == 3      \* at most this many entries in a materialized file set

\* a second source file with the content of a
P_a_copy == <<"a", "2">>
TreePaths == {P_a, P_a_copy, P_out_c, P_outer}

\* the files under indir
Indir ==
  [p \in AllPaths \cup {P_a_copy} |->
     IF p = P_a_copy THEN FileSystem[P_a] ELSE FileSystem[p]]

\* run_isolated.COPY and run_isolated.HARDLINK_WITH_FALLBACK
COPY == "COPY"
HARDLINK_WITH_FALLBACK == "HARDLINK_WITH_FALLBACK"

\* the metadata an entry of infiles may carry for the source path p: the
\* hashed record, or for a regular file the hash alone
MetadataOf(p) ==
  {Indir[p]} \cup (IF "h" \in DOMAIN Indir[p] THEN {[h |-> Indir[p].h]} ELSE {})

\* the infiles arguments of recreate_tree
TreeInfiles ==
  UNION {{f \in [P -> UNION {MetadataOf(p) : p \in P}] :
            \A p \in P : f[p] \in MetadataOf(p)} :
         P \in {Q \in SUBSET TreePaths : Cardinality(Q) <= MaxEntries}}

\* saved_state.files after the hashing pass, as given to create_isolate_tree
HashedInfiles == {f \in TreeInfiles : \A p \in DOMAIN f : f[p] = Indir[p]}

\* os.path.dirname of a relative path: the characters before the last '/'
RECURSIVE dirname(_)
dirname(p) ==
  IF p = <<>> THEN <<>>
  ELSE IF p[Len(p)] = "/" THEN SubSeq(p, 1, Len(p) - 1)
  ELSE dirname(SubSeq(p, 1, Len(p) - 1))

\* os.path.isdir and os.path.isfile under outdir
isdir(fs, d) ==
  IF d = <<>> THEN fs.isdir
  ELSE d \in DOMAIN fs.nodes /\ fs.nodes[d].kind = "dir"

isfile(fs, n) == n \in DOMAIN fs.nodes /\ fs.nodes[n].kind = "file"

\* the directory d and its parents up to outdir
RECURSIVE ancestors(_)
ancestors(d) == IF d = <<>> THEN {} ELSE {d} \cup ancestors(dirname(d))

\* os.makedirs
makedirs(fs, d) ==
  [fs EXCEPT !.isdir = TRUE,
             !.nodes = [n \in (DOMAIN fs.nodes) \cup ancestors(d) |->
                          IF n \in DOMAIN fs.nodes THEN fs.nodes[n]
                          ELSE [kind |-> "dir"]]]

\* the destination with node written at name n
with_node(fs, n, node) ==
  [fs EXCEPT !.nodes = [k \in (DOMAIN fs.nodes) \cup {n} |->
                          IF k = n THEN node ELSE fs.nodes[k]]]

\* os.remove
remove(fs, n) == [fs EXCEPT !.nodes = DictWithout(@, {n})]

\* run_isolated.link_file: fails when the source is not a file or the
\* destination exists, else the destination is a link to or a copy of the
\* source
link_file(fs, outfile, infile, action) ==
  IF \/ ~(infile \in DOMAIN Indir /\ "h" \in DOMAIN Indir[infile])
     \/ isfile(fs, outfile)
    THEN [exc |-> "MappingError", fs |-> fs]
    ELSE [exc |-> "",
          fs |-> with_node(fs, outfile,
                           [kind |-> "file", size |-> Indir[infile].s,
                            from |-> infile, action |-> action])]

\* Faulty variant: symlink entries are not skipped in as_hash mode.
skip_link_never(metadata, as_hash) == FALSE

\* if as_hash: if 'l' in metadata: continue
skip_link(metadata, as_hash) == as_hash /\ "l" \in DOMAIN metadata

\* Faulty variant: an existing destination file is never taken as stored.
size_matches_never(metadata, st_size) == FALSE

\* Faulty variant: an existing destination file is always taken as stored.
size_matches_always(metadata, st_size) == TRUE

\* metadata['s'] == os.stat(outfile).st_size
size_matches(metadata, st_size) == metadata.s = st_size

\* Faulty variant: every entry goes through link_file.
is_symlink_never(metadata) == FALSE

\* if 'l' in metadata, at the end of an iteration
is_symlink(metadata) == "l" \in DOMAIN metadata

\* the end of one iteration: os.symlink or link_file on outfile, after the
\* operations ops
materialize(fs, ops, relfile, metadata, outfile, action) ==
  IF is_symlink(metadata)
    THEN [exc |-> "",
          fs |-> with_node(fs, outfile,
                           [kind |-> "symlink", pointed |-> metadata.l]),
          ops |-> ops \o <<[op |-> "symlink", outfile |-> outfile,
                            pointed |-> metadata.l]>>]
    ELSE LET r == link_file(fs, outfile, relfile, action) IN
         [exc |-> r.exc,
          fs |-> r.fs,
          ops |-> ops \o <<[op |-> "link_file", outfile |-> outfile,
                            infile |-> relfile, action |-> action]>>]

\* one iteration of the loop of recreate_tree
recreate_one(fs, relfile, metadata, action, as_hash) ==
  IF as_hash THEN
    IF skip_link(metadata, as_hash) THEN [exc |-> "", fs |-> fs, ops |-> <<>>]
    ELSE IF "h" \notin DOMAIN metadata
      THEN [exc |-> "KeyError", fs |-> fs, ops |-> <<>>]
    ELSE
      LET outfile == metadata.h IN
      IF isfile(fs, outfile) THEN
        IF "s" \notin DOMAIN metadata
          THEN [exc |-> "MappingError", fs |-> fs, ops |-> <<>>]
        ELSE IF size_matches(metadata, fs.nodes[outfile].size)
          THEN [exc |-> "", fs |-> fs, ops |-> <<>>]
        ELSE materialize(remove(fs, outfile),
                         <<[op |-> "remove", outfile |-> outfile]>>,
                         relfile, metadata, outfile, action)
      ELSE materialize(fs, <<>>, relfile, metadata, outfile, action)
  ELSE
    LET outfile == relfile
        outsubdir == dirname(outfile)
    IN
    IF ~isdir(fs, outsubdir)
      THEN materialize(makedirs(fs, outsubdir),
                       <<[op |-> "makedirs", dir |-> outsubdir]>>,
                       relfile, metadata, outfile, action)
      ELSE materialize(fs, <<>>, relfile, metadata, outfile, action)

\* the destinations a materialization may find: no directory, an empty
\* directory, or a hash store that holds the content of a, whole or truncated
NoDir == [isdir |-> FALSE, nodes |-> EmptyDict, perm |-> <<>>]

Stored(h, size) ==
  [isdir |-> TRUE,
   nodes |-> [n \in {h} |-> [kind |-> "file", size |-> size,
                             from |-> <<>>, action |-> "earlier"]],
   perm |-> <<>>]

InitialDests ==
  {NoDir, EmptyDir, Stored("hash_a", Indir[P_a].s), Stored("hash_a", 0)}

\* Faulty variant: the read-only pass runs before the working directory is
\* created.
create_isolate_tree_steps_early ==
  <<"recreate_tree", "change_tree_read_only", "makedirs_cwd">>

\* the steps of create_isolate_tree, in the order of its statements
create_isolate_tree_steps ==
  <<"recreate_tree", "makedirs_cwd", "change_tree_read_only">>

\* the relative_cwd of a saved state, and os.path.normpath(
\* os.path.join(outdir, relative_cwd)) as a name under outdir
TreeCwds == {<<".">>, S_out}
cwd_of(relative_cwd) == IF relative_cwd = <<".">> THEN <<>> ELSE relative_cwd

\* moves the call to its next step, or to its return
Advance(t) ==
  IF t.steps = <<>> THEN [t EXCEPT !.phase = "done"]
  ELSE [t EXCEPT !.phase = Head(t.steps), !.steps = Tail(t.steps)]

\* the loop of recreate_tree ends when no entry is left
LoopEnd(t) == IF t.todo = {} THEN Advance(t) ELSE t

\* the call frame at the entry of recreate_tree
Frame(caller, steps, as_hash, action, infiles, read_only, relative_cwd) ==
  LoopEnd([phase |-> Head(steps), steps |-> Tail(steps),
           caller |-> caller, as_hash |-> as_hash,
           action |-> action, infiles |-> infiles,
           todo |-> DOMAIN infiles, read_only |-> read_only,
           relative_cwd |-> relative_cwd,
           before |-> DOMAIN outdir_fs.nodes, exc |-> ""])

\* entry of recreate_tree: if not os.path.isdir(outdir): os.makedirs(outdir)
EnterRecreateTree ==
  /\ outdir_fs' = IF isdir(outdir_fs, <<>>) THEN outdir_fs
                  ELSE makedirs(outdir_fs, <<>>)
  /\ oplog' = IF isdir(outdir_fs, <<>>) THEN <<>>
              ELSE <<[op |-> "makedirs", dir |-> <<>>]>>

InitTree ==
  /\ saved_state = SavedState_init
  /\ state_file = NoFile
  /\ isolated_files = EmptyDict
  /\ isolate_on_disk = AbsIsolateFiles
  /\ last = NoOp
  /\ pc = "tree"
  /\ tree = TreeIdle
  /\ outdir_fs \in InitialDests
  /\ oplog = <<>>
  /\ pending = <<>>
  /\ NoConcurrency

\* a call of recreate_tree
RecreateTree ==
  /\ tree.phase = "idle"
  /\ \E as_hash \in BOOLEAN, action \in {COPY, HARDLINK_WITH_FALLBACK},
        infiles \in TreeInfiles :
       /\ ~as_hash => outdir_fs.nodes = EmptyDict
       /\ tree' = Frame("recreate_tree", <<"recreate_tree">>, as_hash, action,
                        infiles, NoneRO, <<".">>)
  /\ EnterRecreateTree
  /\ UNCHANGED stateVars
  /\ UNCHANGED <<concurrentVars, pending>>

\* a call of create_isolate_tree on the files of a saved state, into an
\* empty or missing outdir
CreateIsolateTree ==
  /\ tree.phase = "idle"
  /\ outdir_fs.nodes = EmptyDict
  /\ \E files \in HashedInfiles, relative_cwd \in TreeCwds,
        read_only \in ReadOnlyArgs :
       tree' = Frame("create_isolate_tree", create_isolate_tree_steps, FALSE,
                     IF read_only \notin {0, NoneRO} THEN COPY
                     ELSE HARDLINK_WITH_FALLBACK,
                     files, read_only, relative_cwd)
  /\ EnterRecreateTree
  /\ UNCHANGED stateVars
  /\ UNCHANGED <<concurrentVars, pending>>

\* one iteration of for relfile, metadata in infiles.iteritems()
RecreateTreeStep ==
  /\ tree.phase = "recreate_tree"
  /\ \E relfile \in tree.todo :
       LET r == recreate_one(outdir_fs, relfile, tree.infiles[relfile],
                             tree.action, tree.as_hash)
       IN
       /\ outdir_fs' = r.fs
       /\ oplog' = oplog \o r.ops
       /\ tree' = IF r.exc # ""
                    THEN [tree EXCEPT !.phase = "raised", !.exc = r.exc]
                    ELSE LoopEnd([tree EXCEPT !.todo = @ \ {relfile}])
  /\ UNCHANGED stateVars
  /\ UNCHANGED <<concurrentVars, pending>>

\* cwd = normpath(join(outdir, relative_cwd)); makedirs(cwd) if missing
MakedirsCwd ==
  /\ tree.phase = "makedirs_cwd"
  /\ LET cwd == cwd_of(tree.relative_cwd) IN
     IF isdir(outdir_fs, cwd)
       THEN UNCHANGED <<outdir_fs, oplog>>
       ELSE /\ outdir_fs' = makedirs(outdir_fs, cwd)
            /\ oplog' = Append(oplog, [op |-> "makedirs", dir |-> cwd])
  /\ tree' = Advance(tree)
  /\ UNCHANGED stateVars
  /\ UNCHANGED <<concurrentVars, pending>>

\* run_isolated.change_tree_read_only(outdir, read_only)
ChangeTreeReadOnly ==
  /\ tree.phase = "change_tree_read_only"
  /\ outdir_fs' = [outdir_fs EXCEPT !.perm = <<tree.read_only>>]
  /\ oplog' = Append(oplog, [op |-> "change_tree_read_only",
                             read_only |-> tree.read_only])
  /\ tree' = Advance(tree)
  /\ UNCHANGED stateVars
  /\ UNCHANGED <<concurrentVars, pending>>

NextTree ==
  \/ RecreateTree
  \/ CreateIsolateTree
  \/ RecreateTreeStep
  \/ MakedirsCwd
  \/ ChangeTreeReadOnly

SpecTree == InitTree /\ [][NextTree]_vars

(***************************************************************************)
(* Properties of the update protocol.                                      *)
(***************************************************************************)
HashKeys == {"h", "s", "m", "l"}

UnionOfLast == last.infiles \cup last.touched

\* C1: after update_isolated the key set of files is exactly the union of
\* infiles and touched; every path of the union is present and every other
\* path that was present before is gone.
C1_KeysAreUnion ==
  last.op = "update_isolated" =>
    /\ DOMAIN saved_state.files = UnionOfLast
    /\ \A p \in last.prev_keys \ UnionOfLast : p \notin DOMAIN saved_state.files

\* C1 witness: a call that deleted a recorded path and added a new one.
C1_Witness ==
  /\ last.op = "update_isolated"
  /\ last.prev_keys \ UnionOfLast # {}
  /\ UnionOfLast \ last.prev_keys # {}

\* C2: after update_isolated every path of the union that was not a key
\* before the call has a record without hash, size, mode and symlink target.
C2_NewRecordsPending ==
  last.op = "update_isolated" =>
    \A p \in (DOMAIN saved_state.files) \ last.prev_keys :
      (DOMAIN saved_state.files[p]) \cap HashKeys = {}

\* C2 witness: a call that added a path next to a retained, hashed one.
C2_Witness ==
  /\ last.op = "update_isolated"
  /\ (DOMAIN saved_state.files) \ last.prev_keys # {}
  /\ \E p \in (DOMAIN saved_state.files) \cap last.prev_keys :
       (DOMAIN saved_state.files[p]) \cap HashKeys # {}

\* C3 as stated: after update_isolated command, read_only and relative_cwd
\* each equal the argument passed in, for every argument including None.
C3_OverwrittenWholesale ==
  last.op = "update_isolated" =>
    /\ saved_state.command = last.command
    /\ saved_state.read_only = last.read_only
    /\ saved_state.relative_cwd = last.relative_cwd

\* C3 amended: update_isolated overwrites command and relative_cwd with the
\* arguments; read_only is overwritten when the argument is not None and
\* keeps its previous value when the argument is None.
C3_OverwrittenUnlessNone ==
  [][
     last'.op = "update_isolated" =>
       /\ saved_state'.command = last'.command
       /\ saved_state'.relative_cwd = last'.relative_cwd
       /\ saved_state'.read_only =
            IF last'.read_only # NoneRO THEN last'.read_only
            ELSE saved_state.read_only
  ]_vars

\* C3 witness: a call with read_only None on a state that has a policy.
C3_Witness ==
  /\ last.op = "update_isolated"
  /\ last.read_only = NoneRO
  /\ saved_state.read_only # NoneRO

\* C4: update_config, update and update_isolated are idempotent: applying
\* the last operation once more with the same arguments leaves the state as
\* it is (a refused update is refused again).
C4_Idempotent ==
  /\ last.op = "update_config" =>
       update_config(saved_state, last.config_variables) = saved_state
  /\ last.op = "update" =>
       LET r == update(saved_state, last.isolate_file, last.path_variables,
                       last.extra_variables) IN
       r.ok = last.ok /\ r.out = saved_state
  /\ last.op = "update_isolated" =>
       update_isolated(saved_state, last.command, last.infiles, last.touched,
                       last.read_only, last.relative_cwd) = saved_state

\* C4 witness: the three operations have acted and update_isolated is last.
C4_Witness ==
  /\ last.op = "update_isolated"
  /\ P_a \in DOMAIN saved_state.files
  /\ "T" \in DOMAIN saved_state.files[P_a]
  /\ saved_state.command # <<>>
  /\ saved_state.config_variables # EmptyDict
  /\ saved_state.path_variables # EmptyDict

\* C5: update is refused when the state records a non-empty isolate_file
\* that differs from the one passed in, and then isolate_file, path_variables
\* and extra_variables are unchanged; a recorded description source is never
\* replaced by a different one.
C5_NoRetarget ==
  [][
     /\ (last'.op = "update" /\ Truthy(saved_state.isolate_file)
           /\ safe_relpath(last'.isolate_file) # saved_state.isolate_file)
         => (/\ ~last'.ok
             /\ saved_state'.isolate_file = saved_state.isolate_file
             /\ saved_state'.path_variables = saved_state.path_variables
             /\ saved_state'.extra_variables = saved_state.extra_variables)
     /\ Truthy(saved_state.isolate_file)
         => (saved_state'.isolate_file = saved_state.isolate_file)
  ]_vars

\* C5 witness: an update with a conflicting description path and new
\* variables was refused.
C5_Witness ==
  /\ last.op = "update"
  /\ ~last.ok
  /\ last.path_variables # EmptyDict
  /\ saved_state.path_variables = EmptyDict

(***************************************************************************)
(* Properties of loading a persisted state.                                *)
(***************************************************************************)
JustLoaded == last.op = "load_files" /\ state_file.kind = "object"

\* the members of a document that carry cached content
CarriedMembers ==
  {"files", "config_variables", "path_variables", "extra_variables",
   "command", "isolate_file"}

\* C6: a state document whose version differs from EXPECTED_VERSION, even
\* in its last component, is rejected by SavedState.load, and load_files
\* returns a state equal to a fresh empty SavedState.
C6_VersionMismatchDiscards ==
  (/\ JustLoaded
   /\ "version" \in DOMAIN state_file.data
   /\ state_file.data["version"] # EXPECTED_VERSION)
  => /\ SavedState_load(state_file.data, isolate_on_disk).exc # ""
     /\ last.raised = ""
     /\ ~last.loaded
     /\ saved_state = SavedState_init

\* C6 witness: a document with a minor version difference and cached
\* content was loaded.
C6_Witness ==
  /\ JustLoaded
  /\ state_file.origin = "minor_version"
  /\ CarriedMembers \subseteq DOMAIN state_file.data
  /\ state_file.data["files"] # EmptyDict

\* C7: a state document whose OS differs from the platform of the process,
\* or that has no OS, is rejected by SavedState.load, and load_files returns
\* a fresh empty SavedState of the current platform.
C7_OtherOSDiscards ==
  (/\ JustLoaded
   /\ DictGet(state_file.data, "OS") # sys_platform)
  => /\ SavedState_load(state_file.data, isolate_on_disk).exc # ""
     /\ last.raised = ""
     /\ ~last.loaded
     /\ saved_state = SavedState_init
     /\ saved_state.OS = sys_platform
     /\ saved_state.files = EmptyDict

\* C7 witness: a document without OS and with cached content was loaded.
C7_Witness ==
  /\ JustLoaded
  /\ state_file.origin = "no_os"
  /\ CarriedMembers \subseteq DOMAIN state_file.data
  /\ state_file.data["files"] # EmptyDict

\* a document that passes the member, OS, algorithm and version validation
Validates(data) ==
  /\ DOMAIN data \subseteq MEMBERS
  /\ DictGet(data, "OS") = sys_platform
  /\ DictGet(data, "algo") \in DOMAIN SUPPORTED_ALGOS
  /\ "version" \in DOMAIN data => data["version"] = EXPECTED_VERSION

\* the value a member has once a document is loaded
Persisted(data, member) ==
  IF member \in DOMAIN data THEN data[member] ELSE SavedState_init[member]

\* C8: when a validated state document records an isolate_file that is not
\* on disk any more, the load succeeds with isolate_file None and every
\* other field as persisted, and update accepts any description path.
C8_StaleIsolateFileZapped ==
  (/\ JustLoaded
   /\ Validates(state_file.data)
   /\ "isolate_file" \in DOMAIN state_file.data
   /\ isolate_filepath(state_file.data["isolate_file"]) \notin isolate_on_disk)
  => /\ last.loaded
     /\ saved_state.isolate_file = None
     /\ \A member \in MEMBERS \ {"isolate_file", "algo"} :
          saved_state[member] = Persisted(state_file.data, member)
     /\ \A f \in AbsIsolateFiles :
          update(saved_state, f, EmptyDict, EmptyDict).ok

\* C8 witness: a saved state with files whose description was deleted has
\* been loaded.
C8_Witness ==
  /\ JustLoaded
  /\ last.loaded
  /\ "isolate_file" \in DOMAIN state_file.data
  /\ isolate_filepath(state_file.data["isolate_file"]) \notin isolate_on_disk
  /\ saved_state.files # EmptyDict
  /\ saved_state.path_variables # EmptyDict

(***************************************************************************)
(* Properties of the emitted manifests.                                    *)
(***************************************************************************)
\* the bookkeeping that must stay in the local state
BOOKKEEPING ==
  {"T", "config_variables", "path_variables", "extra_variables"}

CleanDocument(doc) ==
  /\ \A f \in DOMAIN doc.files : DOMAIN doc.files[f] \subseteq {"h", "l", "m", "s"}
  /\ (DOMAIN doc) \cap BOOKKEEPING = {}

\* C9: in the dictionary returned by to_isolated and in every primary or
\* child document written, a file record has only keys of {h, l, m, s}, and
\* neither the touched flag nor a variable map appears.
C9_ManifestsAreStripped ==
  /\ CleanDocument(to_isolated(saved_state))
  /\ \A n \in DOMAIN isolated_files : CleanDocument(isolated_files[n])
  /\ last.op = "save_files" =>
       \A i \in DOMAIN last.writes : CleanDocument(last.writes[i].content)

\* C9 witness: a state with a touched, hashed file and path variables was
\* saved into a primary and a child document.
C9_Witness ==
  /\ last.op = "save_files"
  /\ Len(last.writes) > 1
  /\ last.source.path_variables # EmptyDict
  /\ \E f \in DOMAIN last.source.files :
       {"T", "h"} \subseteq DOMAIN last.source.files[f]

\* a path located under the directory dir
UnderDirectory(f, dir) == startswith(f, dir \o <<"/">>)

\* the low-churn files of a saved state
LowChurn(s, f) ==
  \/ UnderDirectory(f, <<"t", "e", "s", "t", "/", "d", "a", "t", "a">>)
  \/ /\ has_product_dir(s.path_variables)
     /\ UnderDirectory(f, s.path_variables["PRODUCT_DIR"])

ChildWrites(writes) == SubSeq(writes, 1, Len(writes) - 1)

PrimaryWrite(writes) == writes[Len(writes)]

\* C10: chromium_save_isolated partitions the file set: the files under
\* test/data/ or under the PRODUCT_DIR directory are in a child and not in
\* the primary, every other file is in the primary and in no child, nothing is
\* lost or duplicated, and a child is written only when it has a file.
C10_SplitPartitions ==
  last.op = "save_files" =>
    LET all == DOMAIN last.source.files
        primary == DOMAIN PrimaryWrite(last.writes).content.files
        children == ChildWrites(last.writes)
        child(i) == DOMAIN children[i].content.files
    IN
    /\ \A f \in all :
         IF LowChurn(last.source, f)
           THEN f \notin primary /\ \E i \in DOMAIN children : f \in child(i)
           ELSE f \in primary /\ \A i \in DOMAIN children : f \notin child(i)
    /\ primary \cup UNION {child(i) : i \in DOMAIN children} = all
    /\ \A i, j \in DOMAIN children : i # j => child(i) \cap child(j) = {}
    /\ \A i \in DOMAIN children : child(i) # {} /\ child(i) \cap primary = {}

\* C11: the primary document lists in includes one entry per child written,
\* each the hash of the bytes of that child as written on disk, in the order
\* of extraction (the test/data child before the PRODUCT_DIR child); when no
\* child is written the primary has no includes field.
C11_IncludesMatchChildren ==
  last.op = "save_files" =>
    LET children == ChildWrites(last.writes)
        primary == PrimaryWrite(last.writes).content
    IN
    /\ ("includes" \in DOMAIN primary) <=> (children # <<>>)
    /\ children # <<>> =>
         /\ Len(primary.includes) = Len(children)
         /\ \A i \in DOMAIN children :
              /\ children[i].path \in DOMAIN isolated_files
              /\ primary.includes[i] =
                   hash_file(isolated_files[children[i].path],
                             last.source.algo)
         /\ \A i \in DOMAIN children : \A f \in DOMAIN children[i].content.files :
              startswith(f, TEST_DATA_PREFIX) => i = 1

\* C11 witness: a save wrote a test/data child and a PRODUCT_DIR child, in
\* that order, and the primary lists both.
C11_Witness ==
  /\ last.op = "save_files"
  /\ Len(ChildWrites(last.writes)) = 2
  /\ P_test_data_b \in DOMAIN last.writes[1].content.files
  /\ P_out_c \in DOMAIN last.writes[2].content.files
  /\ Len(PrimaryWrite(last.writes).content.includes) = 2

\* the saved state s hashed with one more file f
WithExtraFile(s, f) ==
  [s EXCEPT !.files =
     [g \in (DOMAIN s.files) \cup {f} |->
        IF g = f THEN file_to_metadata(f, EmptyDict) ELSE s.files[g]]]

\* C12: when a second run of chromium_save_isolated differs from the first
\* only by one more file that is neither under test/data/ nor inside the
\* PRODUCT_DIR directory, every child of the first run is written with the
\* same bytes at the same position, and listed with the same hash at the
\* same position of includes.
C12_SplitStable ==
  last.op = "save_files" =>
    \A f \in AllPaths \ DOMAIN last.source.files :
      ~LowChurn(last.source, f) =>
        LET s2 == WithExtraFile(last.source, f)
            second == chromium_save_isolated(
                        to_isolated(s2), s2.path_variables, s2.algo).writes
            first == last.writes
        IN
        \A i \in DOMAIN ChildWrites(first) :
          /\ i \in DOMAIN ChildWrites(second)
          /\ ChildWrites(second)[i] = ChildWrites(first)[i]
          /\ PrimaryWrite(second).content.includes[i] =
               PrimaryWrite(first).content.includes[i]

(***************************************************************************)
(* Properties of the materialization.                                      *)
(***************************************************************************)
\* a call in as_hash mode, respectively by relative path, has started
InHashMode == tree.phase # "idle" /\ tree.as_hash
InPathMode == tree.phase # "idle" /\ ~tree.as_hash

\* the entries of the call that carry a symlink target
LinkEntries == {f \in DOMAIN tree.infiles : "l" \in DOMAIN tree.infiles[f]}

\* C13: in as_hash mode an entry with a symlink target is skipped entirely:
\* no operation is done for it and it never makes the call fail; what the
\* call adds to the destination are only files named by the hash of an entry
\* that is not a symlink.
C13_LinksSkippedInHashMode ==
  InHashMode =>
    /\ \A i \in DOMAIN oplog :
         /\ oplog[i].op # "symlink"
         /\ oplog[i].op = "link_file" => oplog[i].infile \notin LinkEntries
    /\ \A n \in (DOMAIN outdir_fs.nodes) \ tree.before :
         /\ outdir_fs.nodes[n].kind = "file"
         /\ \E f \in (DOMAIN tree.infiles) \ LinkEntries :
              tree.infiles[f].h = n
    /\ tree.phase = "raised" => ~(tree.todo \subseteq LinkEntries)

\* C13 witness: a call in as_hash mode on a symlink entry and a regular file
\* returned, and the destination holds the regular file under its hash only.
C13_Witness ==
  /\ InHashMode
  /\ tree.phase = "done"
  /\ P_outer \in LinkEntries
  /\ P_out_c \in DOMAIN tree.infiles
  /\ DOMAIN outdir_fs.nodes = {"hash_c"}

\* the entries handled by the iteration that is being taken without raising
Handled == IF tree'.phase = "raised" THEN {} ELSE tree.todo \ tree'.todo

\* C14: in as_hash mode, when the destination already holds a file named by
\* the hash of an entry with a recorded size, the iteration leaves the
\* destination untouched (no removal, no link or copy) if and only if the
\* size of that file equals the recorded size; otherwise it removes the file
\* and then writes it again from the source of the entry with the requested
\* action.
C14_StoredIffSizeMatches ==
  [][
    (InHashMode /\ tree.phase = "recreate_tree") =>
      \A f \in Handled :
        LET md == tree.infiles[f] IN
        (/\ f \notin LinkEntries
         /\ "s" \in DOMAIN md
         /\ isfile(outdir_fs, md.h)) =>
          IF md.s = outdir_fs.nodes[md.h].size
            THEN outdir_fs' = outdir_fs /\ oplog' = oplog
            ELSE /\ oplog' = oplog \o
                       <<[op |-> "remove", outfile |-> md.h],
                         [op |-> "link_file", outfile |-> md.h,
                          infile |-> f, action |-> tree.action]>>
                 /\ outdir_fs'.nodes[md.h] =
                      [kind |-> "file", size |-> Indir[f].s, from |-> f,
                       action |-> tree.action]
  ]_vars

\* C14 witness: the destination held a truncated file under the hash of a;
\* the call removed it and wrote it again from a source with that hash.
C14_Witness ==
  /\ InHashMode
  /\ tree.before = {"hash_a"}
  /\ Len(oplog) = 2
  /\ oplog[1] = [op |-> "remove", outfile |-> "hash_a"]
  /\ oplog[2].op = "link_file"
  /\ outdir_fs.nodes["hash_a"].size = Indir[P_a].s

\* the positions of oplog where a file was written at the name n
WritesOf(n) ==
  {i \in DOMAIN oplog : oplog[i].op = "link_file" /\ oplog[i].outfile = n}

\* two distinct entries of the call with the same hash and the same size
Duplicates(f, g) ==
  /\ f # g
  /\ {f, g} \cap LinkEntries = {}
  /\ "s" \in DOMAIN tree.infiles[f]
  /\ tree.infiles[f] = tree.infiles[g]

\* C15: in as_hash mode into an empty destination, when two distinct source
\* paths have the same hash and size, their hash is written at most once and
\* never removed, whatever the order of the entries, and when the call
\* returns the destination holds exactly one file for it, written once.
C15_DedupWritesOnce ==
  (InHashMode /\ tree.before = {}) =>
    \A f, g \in DOMAIN tree.infiles :
      Duplicates(f, g) =>
        LET h == tree.infiles[f].h IN
        /\ Cardinality(WritesOf(h)) <= 1
        /\ \A i \in DOMAIN oplog : oplog[i].op # "remove"
        /\ tree.phase = "done" =>
             /\ Cardinality(WritesOf(h)) = 1
             /\ isfile(outdir_fs, h)
             /\ \A i \in WritesOf(h) :
                  outdir_fs.nodes[h].from = oplog[i].infile

\* C15 witness: a and its copy were materialized by hash into an empty
\* destination, and the second one processed was the copy.
C15_Witness ==
  /\ InHashMode
  /\ tree.phase = "done"
  /\ tree.before = {}
  /\ {P_a, P_a_copy} \subseteq DOMAIN tree.infiles
  /\ Duplicates(P_a, P_a_copy)
  /\ outdir_fs.nodes["hash_a"].from = P_a

\* the regular-file entries of the call with a hash and no size
Unsized ==
  {f \in (DOMAIN tree.infiles) \ LinkEntries : "s" \notin DOMAIN tree.infiles[f]}

\* C16: in as_hash mode a regular-file entry with a hash and no size is
\* never materialized and makes the call fail with MappingError, whether or
\* not the destination already holds a file of that name: the call does not
\* return normally.
C16_UnsizedAlwaysFatal ==
  (InHashMode /\ Unsized # {}) =>
    /\ \A i \in DOMAIN oplog :
         oplog[i].op = "link_file" => oplog[i].infile \notin Unsized
    /\ tree.phase # "done"
    /\ tree.phase = "raised" => tree.exc = "MappingError"

\* C17: by relative path, every entry with a symlink target is recreated at
\* its relative path as a symlink to exactly the recorded target and is never
\* passed to link_file; every other entry is passed to link_file at its
\* relative path with the requested action and is never made a symlink.
C17_SymlinksStaySymlinks ==
  InPathMode =>
    /\ \A i \in DOMAIN oplog :
         /\ oplog[i].op = "symlink" =>
              /\ oplog[i].outfile \in LinkEntries
              /\ oplog[i].pointed = tree.infiles[oplog[i].outfile].l
         /\ oplog[i].op = "link_file" =>
              /\ oplog[i].infile \notin LinkEntries
              /\ oplog[i].outfile = oplog[i].infile
              /\ oplog[i].action = tree.action
    /\ \A f \in (DOMAIN tree.infiles) \ tree.todo :
         /\ f \in DOMAIN outdir_fs.nodes
         /\ IF f \in LinkEntries
              THEN outdir_fs.nodes[f] =
                     [kind |-> "symlink", pointed |-> tree.infiles[f].l]
              ELSE outdir_fs.nodes[f] =
                     [kind |-> "file", size |-> Indir[f].s, from |-> f,
                      action |-> tree.action]

\* C17 witness: a call by relative path recreated the symlink outer and the
\* regular file out/c.
C17_Witness ==
  /\ InPathMode
  /\ tree.phase = "done"
  /\ {P_outer, P_out_c} \subseteq DOMAIN outdir_fs.nodes
  /\ outdir_fs.nodes[P_outer].kind = "symlink"
  /\ outdir_fs.nodes[P_out_c].kind = "file"

\* C18: in create_isolate_tree the read-only pass comes strictly after every
\* file write, symlink creation and directory creation, the creation of the
\* working directory included: nothing is written once the pass has started,
\* the pass is the last step before the return, and at the return every entry
\* and the working directory exist.
C18_ReadOnlyPassIsLast ==
  (tree.phase # "idle" /\ tree.caller = "create_isolate_tree") =>
    /\ \A i \in DOMAIN oplog :
         oplog[i].op = "change_tree_read_only" =>
           i = Len(oplog) /\ tree.phase = "done"
    /\ tree.phase = "done" =>
         /\ oplog # <<>>
         /\ oplog[Len(oplog)] = [op |-> "change_tree_read_only",
                                 read_only |-> tree.read_only]
         /\ outdir_fs.perm = <<tree.read_only>>
         /\ DOMAIN tree.infiles \subseteq DOMAIN outdir_fs.nodes
         /\ isdir(outdir_fs, cwd_of(tree.relative_cwd))
    /\ tree.phase # "done" => outdir_fs.perm = <<>>

\* C18 witness: create_isolate_tree returned after it wrote a file, created
\* the working directory out and then made the tree read-only.
C18_Witness ==
  /\ tree.phase = "done"
  /\ tree.caller = "create_isolate_tree"
  /\ tree.read_only = 1
  /\ Len(oplog) >= 3
  /\ oplog[Len(oplog) - 1] = [op |-> "makedirs", dir |-> S_out]
  /\ oplog[Len(oplog) - 2].op = "link_file"

(***************************************************************************)
(* Properties of the root inference.                                       *)
(***************************************************************************)
\* the directory a path variable of value v resolves to, from the directory
\* of the description, as components
ResolvedDir(v) ==
  normparts(<<>>, DirParts(isolate_cmd_dir(last.d.isolate_file)) \o split(v))

\* the path variables of the saved state that resolve outside its root_dir
OutsideRoot ==
  {k \in DOMAIN saved_state.path_variables :
     LET root == DirParts(saved_state.root_dir)
         at == ResolvedDir(saved_state.path_variables[k])
     IN ~(Len(root) <= Len(at) /\ SubSeq(at, 1, Len(root)) = root)}

OnDisk(w) ==
  IF w.target = "state" THEN state_file
  ELSE IF w.path \in DOMAIN isolated_files THEN isolated_files[w.path]
  ELSE EmptyDict

Before(w) ==
  IF w.target = "state" THEN last.before.state_file
  ELSE IF w.path \in DOMAIN last.before.isolated_files
    THEN last.before.isolated_files[w.path]
  ELSE EmptyDict

\* the file of the write w exists
Exists(w) ==
  IF w.target = "state" THEN state_file.kind # "missing"
  ELSE w.path \in DOMAIN isolated_files

\* a document that can be loaded on its own
CompleteDocument(w) ==
  IF w.target = "state"
    THEN /\ OnDisk(w).kind = "object"
         /\ {"OS", "algo", "version", "files", "child_isolated_files"}
              \subseteq DOMAIN OnDisk(w).data
    ELSE {"algo", "files", "version"} \subseteq DOMAIN OnDisk(w)

\* C20: save_files writes every child manifest before the primary manifest
\* and the primary before the state file, which is written last, after all
\* the manifests; at every point between two writes, so wherever the process
\* may be killed, the documents already written are whole and new and the
\* others are as they were: no document on disk is partial.
C20_ManifestsBeforeState ==
  last.op = "save_files" =>
    LET plan == last.plan IN
    /\ plan[Len(plan)].target = "state"
    /\ plan[Len(plan) - 1].path = PRIMARY
    /\ \A i \in 1..(Len(plan) - 1) : plan[i].target = "isolated"
    /\ \A i \in 1..(Len(plan) - 2) : plan[i].path # PRIMARY
    /\ \A i \in DOMAIN plan :
         /\ i <= last.written => OnDisk(plan[i]) = plan[i].content
         /\ i > last.written => OnDisk(plan[i]) = Before(plan[i])
         /\ Exists(plan[i]) => CompleteDocument(plan[i])

\* C20 witness: the process was killed after the children and the primary of
\* a second save were written and before its state file was: the state file
\* of the first save is still on disk, whole, and differs from the new one.
C20_Witness ==
  /\ last.op = "save_files"
  /\ last.crashed
  /\ Len(last.plan) = 4
  /\ last.written = 3
  /\ state_file.kind = "object"
  /\ state_file # last.plan[4].content
  /\ isolated_files[PRIMARY] = last.plan[3].content

(***************************************************************************)
(* Properties of the persistence across processes.                         *)
(***************************************************************************)
\* C21: when a process loads the state file that the previous process has
\* just saved, on the same OS and with the description still present, the
\* load succeeds and every member of the loaded SavedState (files with their
\* full records, algo as the internal handle, command, the three variable
\* maps, read_only, relative_cwd, root_dir, child_isolated_files) equals the
\* saved one; on disk the algorithm is its human-readable name.
C21_RoundTrip ==
  [][
    (last.op = "save_files" /\ last'.op = "load_files") =>
      /\ last'.ok
      /\ last'.loaded
      /\ \A member \in MEMBERS : saved_state'[member] = last.saved[member]
      /\ state_file.data.algo = SUPPORTED_ALGOS_REVERSE[last.saved.algo]
      /\ state_file.data.algo # last.saved.algo
  ]_vars

\* C21 witness: a state with a touched hashed file, path variables and two
\* children was saved and then loaded back by the next process.
C21_Witness ==
  /\ last.op = "load_files"
  /\ last.loaded
  /\ state_file.origin = "saved"
  /\ Len(saved_state.child_isolated_files) = 2
  /\ saved_state.path_variables # EmptyDict
  /\ \E f \in DOMAIN saved_state.files :
       {"T", "h"} \subseteq DOMAIN saved_state.files[f]
  /\ \A member \in MEMBERS \ {"algo"} :
       member \in DOMAIN state_file.data =>
         saved_state[member] = state_file.data[member]

(***************************************************************************)
(* Properties of the commands.                                             *)
(***************************************************************************)
\* C22: when CMDarchive has ended without success, after a failure in
\* prepare_for_archival or in upload_tree, no primary .isolated file is on
\* disk; when it has ended with success the primary exists and the command
\* returned 0.
C22_NoStaleManifest ==
  (last.op = "archive" /\ last.done) =>
    IF last.success
      THEN PRIMARY \in DOMAIN isolated_files /\ last.returned = 0
      ELSE PRIMARY \notin DOMAIN isolated_files

\* C22 witness: an archive failed in upload_tree after its manifests were
\* written: the children are on disk and the primary is not.
C22_Witness ==
  /\ last.op = "archive"
  /\ last.done
  /\ last.failed_in = "upload_tree"
  /\ slavepath(0) \in DOMAIN isolated_files
  /\ PRIMARY \notin DOMAIN isolated_files
  /\ state_file.kind = "object"

(***************************************************************************)
(* C23: the variables of the three kinds persist across refresh cycles.    *)
(***************************************************************************)
VARIABLE_MEMBERS == {"config_variables", "path_variables", "extra_variables"}

\* the variables of one kind in the state file, none when there is no
\* readable state document
PersistedVariables(file, member) ==
  IF file.kind = "object" /\ member \in DOMAIN file.data
    THEN file.data[member]
    ELSE EmptyDict

\* new holds every variable of old and of given, a given one with the given
\* value and any other one with its old value
Merged(old, given, new) ==
  /\ DOMAIN old \cup DOMAIN given \subseteq DOMAIN new
  /\ \A k \in DOMAIN given : new[k] = given[k]
  /\ \A k \in DOMAIN old \ DOMAIN given : new[k] = old[k]

BothFinished == \A p \in ProcIds : procs[p].pc = "done"

\* C24: once both processes have finished, the state file on disk is the
\* complete state document of the process that wrote its state file last,
\* every field of it.
C24_LastWriterWins ==
  BothFinished =>
    /\ last.state_writer \in ProcIds
    /\ state_file =
         [kind |-> "object", origin |-> "saved",
          data |-> flatten(procs[last.state_writer].saved_state)]

\* both have finished, the state file is the one of process 1 and the
\* primary manifest on disk is the one of process 2, which names other files
C24_Witness ==
  /\ BothFinished
  /\ last.state_writer = 1
  /\ DOMAIN procs[1].saved_state.files = {P_a}
  /\ DOMAIN procs[2].saved_state.files = AllPaths
  /\ DOMAIN state_file.data.files = {P_a}
  /\ P_outer \in DOMAIN isolated_files[PRIMARY].files

(***************************************************************************)
(* C25: no old bot code after store_start_slave has returned.              *)
(***************************************************************************)
\* the version and the zip of a host computed from the script now in force
CurrentCode ==
  LET script == get_start_slave(start_slave_script) IN
  {get_swarming_bot_version(h, script) : h \in Hosts}
    \cup {bot_archive_zip(h, script) : h \in Hosts}

StoreReturned == requests[STORE].pc = "idle"

\* C25: once store_start_slave has returned, memcache holds no version and no
\* zip computed from a previous script, and a call that began after the
\* return gives the version or the zip computed from the stored script.
C25_NoOldCode ==
  StoreReturned =>
    /\ \A key \in DOMAIN memcache : memcache[key] \in CurrentCode
    /\ (last.op = "return" /\ last.later) => last.value \in CurrentCode

(***************************************************************************)
(* C26: SavedState.load_file is all-or-nothing.                            *)
(***************************************************************************)
\* the state files of the claim: none, an unreadable or malformed one, a
\* saved one, and a saved one with an unknown field, an unknown algorithm,
\* another or no OS, or another version
ListedInputs ==
  {"none", "saved", "missing", "malformed", "unknown_member", "unknown_algo",
   "other_os", "no_os", "minor_version"}

\* the validated content of a document: every member as persisted, the
\* algorithm as its handle, and a description path that is still on disk
ValidatedContent(data, on_disk) ==
  [member \in MEMBERS |->
     CASE member = "algo" -> SUPPORTED_ALGOS[data["algo"]]
       [] member = "isolate_file" ->
            IF Truthy(Persisted(data, member))
                 /\ isolate_filepath(Persisted(data, member)) \notin on_disk
              THEN None
              ELSE Persisted(data, member)
       [] OTHER -> Persisted(data, member)]

\* C26: for each of the listed inputs load_file raises nothing, and the
\* state it returns is either the whole validated content of the document
\* or equal to a new empty SavedState; it never holds some members of a
\* rejected document.
C26_AllOrNothing ==
  (last.op = "load_files" /\ state_file.origin \in ListedInputs) =>
    /\ last.raised = ""
    /\ IF last.loaded
         THEN /\ state_file.kind = "object"
              /\ Validates(state_file.data)
              /\ saved_state = ValidatedContent(state_file.data,
                                                isolate_on_disk)
         ELSE saved_state = SavedState_init

\* a document with an unknown field and with files, variables and a command
\* was rejected as a whole
C26_Witness ==
  /\ last.op = "load_files"
  /\ ~last.loaded
  /\ state_file.origin = "unknown_member"
  /\ state_file.data["files"] # EmptyDict
  /\ state_file.data["path_variables"] # EmptyDict
  /\ state_file.data["command"] # <<>>
  /\ saved_state = SavedState_init

(***************************************************************************)
(* C27: save_files leaves the files map of the state alone.                *)
(***************************************************************************)
\* C27: save_files changes no member of the state but child_isolated_files;
\* the files map in memory and the one of the state file written hold every
\* path, extracted into a child manifest or not, with its whole record.
C27_FilesKept ==
  last.op = "save_files" =>
    /\ \A member \in MEMBERS \ {"child_isolated_files"} :
         last.saved[member] = last.source[member]
    /\ last.saved.files = last.source.files
    /\ state_file.data["files"] = last.source.files

\* a save that extracted test/data/b into a child manifest and kept it, and
\* the touched flag of a, in the state
C27_Witness ==
  /\ last.op = "save_files"
  /\ last.saved.child_isolated_files # <<>>
  /\ last.saved.child_isolated_files # last.source.child_isolated_files
  /\ P_test_data_b \notin DOMAIN isolated_files[PRIMARY].files
  /\ {P_a, P_test_data_b} \subseteq DOMAIN state_file.data["files"]
  /\ "h" \in DOMAIN state_file.data["files"][P_test_data_b]
  /\ "T" \in DOMAIN state_file.data["files"][P_a]

(***************************************************************************)
(* C28: load_complete_state discards the state of another description.     *)
(***************************************************************************)
\* the description load_complete_state processes
IsolateUsed(given, d, s) ==
  IF given THEN d.isolate_file ELSE isolate_filepath(s.isolate_file)

\* C28: when --isolate names another description than the loaded state
\* records, the state handed to load_isolate is a new empty SavedState; on
\* every path the conflict check of update passes on the state it is given,
\* and a state saved after a discard holds only the variables given with
\* the new description.
C28_OtherDescriptionDiscards ==
  [][
    last'.op = "check" =>
      LET loaded == load_file(state_file, isolate_on_disk)
          d == last'.d
          s == last'.before_update
      IN
      /\ (/\ loaded.raised = ""
          /\ last'.given
          /\ Truthy(loaded.out.isolate_file)
          /\ safe_relpath(d.isolate_file) # loaded.out.isolate_file)
         => /\ last'.discarded
            /\ s = SavedState_init
            /\ last'.ok =>
                 /\ state_file'.data["isolate_file"]
                      = safe_relpath(d.isolate_file)
                 /\ \A member \in VARIABLE_MEMBERS :
                      state_file'.data[member] = d[member]
      /\ (loaded.raised = "" /\ (last'.given \/ Truthy(s.isolate_file)))
         => /\ update(s, IsolateUsed(last'.given, d, s),
                      d.path_variables, d.extra_variables).ok
            /\ last'.exc # "AssertionError"
  ]_vars

\* a state saved for a.isolate with a path variable was loaded by a call
\* given b.isolate, discarded, and the new state was saved without it
C28_Witness ==
  /\ last.op = "check" /\ last.ok /\ last.given /\ last.discarded
  /\ last.loaded
  /\ last.d.isolate_file = "/w/b.isolate"
  /\ last.d.path_variables = EmptyDict
  /\ last.d.config_variables = EmptyDict
  /\ state_file.data["isolate_file"] = "b.isolate"
  /\ state_file.data["path_variables"] = EmptyDict
  /\ state_file.data["config_variables"] = EmptyDict

(***************************************************************************)
(* C29: update_isolated keeps the cached record of a retained path.        *)
(***************************************************************************)
\* the hash, size, mode and symlink target recorded for a path
Cached(record) == [k \in (DOMAIN record) \cap HashKeys |-> record[k]]

\* C29: a path that is a key of files before update_isolated and is in the
\* union of the new infiles and touched keeps the hash, size, mode and
\* symlink target recorded for it, which the next files_to_metadata is given
\* as the previous record.
C29_CacheKept ==
  [][
    last'.op = "update_isolated" =>
      \A f \in (DOMAIN saved_state.files)
                 \cap (last'.infiles \cup last'.touched) :
        /\ f \in DOMAIN saved_state'.files
        /\ Cached(saved_state'.files[f]) = Cached(saved_state.files[f])
  ]_vars

\* a call retained a hashed file as touched and a recorded symlink as a
\* plain input
C29_Witness ==
  /\ last.op = "update_isolated"
  /\ \E f \in last.touched \cap last.prev_keys :
       /\ "h" \in DOMAIN saved_state.files[f]
       /\ "T" \in DOMAIN saved_state.files[f]
  /\ \E f \in (last.infiles \ last.touched) \cap last.prev_keys :
       "l" \in DOMAIN saved_state.files[f]

(***************************************************************************)
(* C30: the touched flag follows the touched list of the latest call.      *)
(***************************************************************************)
\* C30: after update_isolated a record carries the flag 'T' if and only if
\* its path is in the touched list of that call; a path touched by an
\* earlier call and a plain input of this one has lost the flag.
C30_TouchedIsLatest ==
  last.op = "update_isolated" =>
    \A f \in DOMAIN saved_state.files :
      "T" \in DOMAIN saved_state.files[f] <=> f \in last.touched

====
